---------------------------- MODULE Spec2Model ----------------------------
(***************************************************************************)
(* Peachy Keen: the interaction / physics state machine of interaction.js  *)
(* (pointer events, rage, explosion, respawn, rigid-body wobble), the      *)
(* soft-body simulator of softbody.js and the particle explosion engine of *)
(* particles.js.                                                           *)
(*                                                                         *)
(* Numbers.  JavaScript doubles are modelled in fixed point: a real q is   *)
(* the integer q * U truncated toward zero, with U = 100.  So lengths,     *)
(* velocities and scale factors are in hundredths, time is in centiseconds *)
(* and rage is in hundredths of a rage point.  Pointer displacements are   *)
(* whole pixels, wall-clock time is in milliseconds.  The position and the *)
(* rotation of the peach group and the two wobble velocities are in        *)
(* ten-thousandths (q * Fine): a hundred steps to the settle threshold.    *)
(***************************************************************************)
EXTENDS Integers, Sequences, FiniteSets, TLC

U == 10 * 10
Fine == U * U

-----------------------------------------------------------------------------
(* Bounds of the model *)

\* number of meshes the model loader hands to setPeachMesh
NumMeshes == 1
\* number of vertices of each mesh's geometry
NumVertices == 3
\* The runs explored are of three kinds, each with a budget of accepted hits
\* and of frames that find the peach loaded and neither exploding nor
\* respawning (frames during an explosion or a respawn are never limited):
\* hits only, enough for two explosions and a hit after them
MaxHits == 21
\* accepted hits of a run with slow and fast pointer events
MaxMissHits == 2
\* accepted hits of a cooldown run
MaxCoolHits == 3
\* hits for one explosion with frames between them
MaxBurstHits == 11
MaxBurstFrames == 1
\* one hit, and then the frames that let the rage decay
MaxPlayFrames == 7
\* hits of mixed speeds: as many as the fastest need to explode the peach
MaxRageHits == 8
\* and hits of three speeds in any mix
MaxMixedHits == 4
\* The runs of the soft body on its own: impulses and updates freely mixed
MaxSoftImpulses == 2
MaxSoftUpdates == 4
\* and impulses followed by updates until the activity timer has run out
MaxLongImpulses == 1
\* The settle runs: the time before the hit, in centiseconds.  It spans half
\* a period of the idle float sin(1.5 t); the other half is its mirror image
MaxLeadTime == 210

-----------------------------------------------------------------------------
(* Program constants (scaled) *)

rageDecayRate == 15
explosionThreshold == 100 * U
respawnDuration == 150
smackCooldown == 200
maxHistorySize == 5
fallDuration == 400
fadeStartTime == 250
maxFrameDelta == 10
minVelocity == 2 * U
impactRadius == 80
activityDuration == 250
maxDisplacement == 15
impulseMaxVelocity == 50
updateMaxVelocity == 30
\* settleThreshold = 0.01 and blendStart = 0.15 of the wobble, in ten-thousandths
settleThreshold == Fine \div U
blendStart == 15 * settleThreshold

-----------------------------------------------------------------------------
(* Arithmetic helpers *)

Abs(a) == IF a < 0 THEN -a ELSE a
Min(a, b) == IF a < b THEN a ELSE b
Max(a, b) == IF a > b THEN a ELSE b

\* a * n / d truncated toward zero, as a double product would be when cut to
\* the fixed-point grid; for d > 0.  The quotient and the remainder of a by d
\* are multiplied separately, which keeps the products in 32 bits
MulDiv(a, n, d) ==
    LET m == Abs(a)
        k == Abs(n)
        q == (m \div d) * k + ((m % d) * k) \div d
    IN  IF (a < 0) = (n < 0) THEN q ELSE -q

RECURSIVE SqrtSearch(_, _, _)
SqrtSearch(n, lo, hi) ==
    IF lo >= hi THEN lo
    ELSE LET mid == (lo + hi + 1) \div 2
         IN  IF mid * mid <= n THEN SqrtSearch(n, mid, hi)
             ELSE SqrtSearch(n, lo, mid - 1)

\* Math.sqrt, floored
ISqrt(n) ==
    SqrtSearch(n, 0, IF n < 100 THEN 10 ELSE IF n < 10000 THEN 100
                     ELSE IF n < 1000000 THEN 1000 ELSE 46340)

Zero3 == <<0, 0, 0>>
VAdd(a, b) == <<a[1] + b[1], a[2] + b[2], a[3] + b[3]>>
VSub(a, b) == <<a[1] - b[1], a[2] - b[2], a[3] - b[3]>>
\* Vector3.multiplyScalar(n / d)
VScale(a, n, d) == <<MulDiv(a[1], n, d), MulDiv(a[2], n, d), MulDiv(a[3], n, d)>>
\* Vector3.length()
VLen(a) == ISqrt(a[1] * a[1] + a[2] * a[2] + a[3] * a[3])
\* Vector3.length() of a vector in ten-thousandths; a vector longer than 2
\* is measured in hundredths, which keeps the squares within 32 bits
Length(a) ==
    IF Max(Abs(a[1]), Max(Abs(a[2]), Abs(a[3]))) > 2 * Fine
    THEN U * VLen(VScale(a, 1, U))
    ELSE VLen(a)
\* the square root rounded upward
CeilSqrt(n) == LET l == ISqrt(n) IN IF l * l = n THEN l ELSE l + 1
\* Vector3.normalize(): divides by (length || 1), so the zero vector stays
\* zero.  The length is rounded upward, so that the components, cut toward
\* zero, never make a vector longer than 1
VNormalize(a) ==
    LET l == CeilSqrt(a[1] * a[1] + a[2] * a[2] + a[3] * a[3])
    IN  IF l = 0 THEN a ELSE VScale(a, U, l)

\* Math.sin of an angle in hundredths of a radian, by Bhaskara's rational
\* approximation on [0, pi] and the symmetry sin(x + pi) = -sin(x).  pi is
\* taken as 3.15, which makes the period of the idle float a whole number of
\* frames at each of the frame rates explored
SinCenti(x) ==
    LET pi == 315
        r  == x % (2 * pi)
        h  == IF r >= pi THEN r - pi ELSE r
        p  == h * (pi - h)
        s  == (16 * p * U) \div (5 * pi * pi - 4 * p)
    IN  IF r >= pi THEN -s ELSE s

\* idleTime enters the physics only through sin(idleTime * 1.5) and
\* sin(idleTime * 0.5), so it is kept modulo their common period of 4 pi
\* seconds, in centiseconds
idlePeriod == 4 * 315

-----------------------------------------------------------------------------
(* Geometry handed over by the model loader: NumVertices vertices per mesh,  *)
(* in pairs that share a position within the grouping tolerance (the         *)
(* duplicated seam vertices of the GLTF model), and an index buffer of the   *)
(* triangles (k, k+1, k+2).  A loaded coordinate is a whole number of        *)
(* hundredths plus a residue in units of 0.00001; every change the          *)
(* simulation makes to a coordinate is a whole number of hundredths, so a    *)
(* vertex keeps the residue it was loaded with.                              *)

Meshes == 1 .. NumMeshes
Vertices == 1 .. NumVertices

\* BufferGeometry.attributes.position as loaded: the rest position of vertex i,
\* in hundredths
LoadedPosition(i) == <<60 * ((i - 1) \div 2), 0, 0>>

\* and what the loaded coordinates of vertex i have below a hundredth, in
\* units of 0.00001: vertex 2 lies 0.00003 behind vertex 1
LoadedResidue(i) == IF i = 2 THEN <<0, 0, 3>> ELSE <<0, 0, 0>>

\* a position whose hundredths are p, held by vertex i, in units of 0.00001
ExactPosition(p, i) ==
    << p[1] * 1000 + LoadedResidue(i)[1],
       p[2] * 1000 + LoadedResidue(i)[2],
       p[3] * 1000 + LoadedResidue(i)[3] >>

\* BufferGeometry.index: the triangles
Triangles == { <<k, k + 1, k + 2>> : k \in 1 .. (NumVertices - 2) }

\* tolerance = 0.0001 of buildVertexGroups, in units of 0.00001
tolerance == 10

\* Math.round(x / tolerance): to the nearest integer, halves upward
RoundDiv(x, d) == (2 * x + d) \div (2 * d)

\* the key of buildVertexGroups for a position e in units of 0.00001
PositionKey(e) ==
    << RoundDiv(e[1], tolerance), RoundDiv(e[2], tolerance), RoundDiv(e[3], tolerance) >>

\* set -> sequence in increasing order (Map insertion order of the indices)
RECURSIVE Ascending(_)
Ascending(S) ==
    IF S = {} THEN << >>
    ELSE LET m == CHOOSE x \in S : \A y \in S : x <= y
         IN  <<m>> \o Ascending(S \ {m})

\* SoftBodyPhysics.buildVertexGroups on a position buffer (a sequence of
\* positions in units of 0.00001): vertexGroups[i] is i alone, or the
\* positionMap entry of i's key when that holds more than one index
vertexGroupsOf(positions) ==
    [ i \in DOMAIN positions |->
        Ascending({ j \in DOMAIN positions :
                      PositionKey(positions[j]) = PositionKey(positions[i]) }) ]

\* the elements of a sequence
Range(q) == { q[k] : k \in DOMAIN q }

\* SoftBodyPhysics.addNeighbor on the neighbors map
addNeighbor(neighbors, vertexIndex, neighborIndex) ==
    IF neighborIndex \in Range(neighbors[vertexIndex]) THEN neighbors
    ELSE [ neighbors EXCEPT ![vertexIndex] = Append(@, neighborIndex) ]

\* the six addNeighbor calls buildNeighborMap makes for the triangle (a, b, c)
addTriangle(neighbors, t) ==
    LET a == t[1]
        b == t[2]
        c == t[3]
    IN  addNeighbor(addNeighbor(addNeighbor(addNeighbor(addNeighbor(addNeighbor(
            neighbors, a, b), a, c), b, a), b, c), c, a), c, b)

\* the loop of buildNeighborMap over the index buffer, a sequence of triangles
RECURSIVE addTriangles(_, _)
addTriangles(neighbors, index) ==
    IF index = << >> THEN neighbors
    ELSE addTriangles(addTriangle(neighbors, Head(index)), Tail(index))

\* pi.distanceTo(pj) < threshold of buildProximityNeighbors, threshold = 0.3,
\* on positions in units of 0.00001; the coordinates are cut to 0.0001 before
\* they are squared
proximityThreshold == 30000
Near(p, q) ==
    LET d == << (p[1] - q[1]) \div 10, (p[2] - q[2]) \div 10, (p[3] - q[3]) \div 10 >>
        t == proximityThreshold \div 10
    IN  /\ Abs(d[1]) < t /\ Abs(d[2]) < t /\ Abs(d[3]) < t
        /\ d[1] * d[1] + d[2] * d[2] + d[3] * d[3] < t * t

\* SoftBodyPhysics.buildProximityNeighbors: vertex i gets the vertices j # i
\* nearer than the threshold among those the inner loop visits, which are the
\* indices 0, step, 2 * step, ... (indices count from 1 here)
buildProximityNeighbors(positions) ==
    LET count == Len(positions)
        step == Max(1, count \div 100)
    IN  [ i \in 1 .. count |->
            Ascending({ j \in 1 .. count :
                          /\ (j - 1) % step = 0
                          /\ j # i
                          /\ Near(positions[i], positions[j]) }) ]

\* SoftBodyPhysics.buildNeighborMap on a geometry: from its index buffer, or
\* by proximity when it has none.  A vertex without an entry in the map has
\* the empty list
neighborMapOf(geometry) ==
    IF ~geometry.indexed THEN buildProximityNeighbors(geometry.positions)
    ELSE addTriangles([i \in DOMAIN geometry.positions |-> << >>], geometry.index)

\* the geometry of the model's meshes
LoadedGeometry ==
    [ positions |-> [i \in Vertices |-> ExactPosition(LoadedPosition(i), i)],
      indexed |-> TRUE,
      index |-> [k \in 1 .. (NumVertices - 2) |-> <<k, k + 1, k + 2>>] ]

\* SoftBodyPhysics.buildVertexGroups: the vertexGroups array
buildVertexGroups == vertexGroupsOf(LoadedGeometry.positions)

\* SoftBodyPhysics.buildNeighborMap / addNeighbor: the neighbors map, as sets
buildNeighborMap ==
    [ i \in Vertices |-> Range(neighborMapOf(LoadedGeometry)[i]) ]

\* new SoftBodyPhysics(mesh): init()
NewSoftBody ==
    [ positions        |-> [i \in Vertices |-> LoadedPosition(i)],
      vertexVelocities |-> [i \in Vertices |-> Zero3],
      isActive         |-> FALSE,
      activityTimer    |-> 0 ]

\* originalPositions[i], stored by init() and never written again
originalPositions(i) == LoadedPosition(i)

\* v.length() > max, decided on the squares
Longer(v, max) == v[1] * v[1] + v[2] * v[2] + v[3] * v[3] > max * max

\* clamp a velocity to a maximum length: normalize().multiplyScalar(max)
ClampLength(v, max) == IF Longer(v, max) THEN VScale(VNormalize(v), max, U) ELSE v

\* an applyImpulse that adds the activity duration to the time left
applyImpulseStacking(sb, localPoint, localDirection, force) ==
    LET hit(i) ==
            LET distance == VLen(VSub(sb.positions[i], localPoint))
                falloff  == U - MulDiv(distance, U, impactRadius)
                strength == MulDiv(MulDiv(MulDiv(force, falloff, U), falloff, U), falloff, U)
                impulse  == VScale(localDirection, strength, U)
            IN  IF distance < impactRadius
                THEN ClampLength(VAdd(sb.vertexVelocities[i], impulse), impulseMaxVelocity)
                ELSE sb.vertexVelocities[i]
    IN  [ sb EXCEPT !.isActive = TRUE,
                    !.activityTimer = @ + activityDuration,
                    !.vertexVelocities = [i \in Vertices |-> hit(i)] ]

\* an applyImpulse whose falloff is linear in the distance
applyImpulseLinearFalloff(sb, localPoint, localDirection, force) ==
    LET hit(i) ==
            LET distance == VLen(VSub(sb.positions[i], localPoint))
                falloff  == U - MulDiv(distance, U, impactRadius)
                impulse  == VScale(localDirection, MulDiv(force, falloff, U), U)
            IN  IF distance < impactRadius
                THEN ClampLength(VAdd(sb.vertexVelocities[i], impulse), impulseMaxVelocity)
                ELSE sb.vertexVelocities[i]
    IN  [ sb EXCEPT !.isActive = TRUE,
                    !.activityTimer = activityDuration,
                    !.vertexVelocities = [i \in Vertices |-> hit(i)] ]

\* an impulse that also displaces the struck vertices at once, by one 60 Hz
\* frame of their new velocity
applyImpulseDisplacing(sb, localPoint, localDirection, force) ==
    LET hit(i) ==
            LET distance == VLen(VSub(sb.positions[i], localPoint))
                falloff  == U - MulDiv(distance, U, impactRadius)
                strength == MulDiv(MulDiv(MulDiv(force, falloff, U), falloff, U), falloff, U)
                impulse  == VScale(localDirection, strength, U)
            IN  IF distance < impactRadius
                THEN ClampLength(VAdd(sb.vertexVelocities[i], impulse), impulseMaxVelocity)
                ELSE sb.vertexVelocities[i]
    IN  [ sb EXCEPT !.isActive = TRUE,
                    !.activityTimer = activityDuration,
                    !.vertexVelocities = [i \in Vertices |-> hit(i)],
                    !.positions = [i \in Vertices |-> VAdd(@[i], hit(i))] ]

\* SoftBodyPhysics.applyImpulse, with the point and direction already in the
\* mesh's local space; force in hundredths
applyImpulse(sb, localPoint, localDirection, force) ==
    LET hit(i) ==
            LET distance == VLen(VSub(sb.positions[i], localPoint))
                falloff  == U - MulDiv(distance, U, impactRadius)
                strength == MulDiv(MulDiv(MulDiv(force, falloff, U), falloff, U), falloff, U)
                impulse  == VScale(localDirection, strength, U)
            IN  IF distance < impactRadius
                THEN ClampLength(VAdd(sb.vertexVelocities[i], impulse), impulseMaxVelocity)
                ELSE sb.vertexVelocities[i]
    IN  [ sb EXCEPT !.isActive = TRUE,
                    !.activityTimer = activityDuration,
                    !.vertexVelocities = [i \in Vertices |-> hit(i)] ]

\* a reset that leaves the velocities as they are
resetPositionsOnly(sb) ==
    [ sb EXCEPT !.positions = [i \in Vertices |-> originalPositions(i)] ]

\* SoftBodyPhysics.resetToOriginal
resetToOriginal(sb) ==
    [ sb EXCEPT !.positions = [i \in Vertices |-> originalPositions(i)],
                !.vertexVelocities = [i \in Vertices |-> Zero3] ]

RECURSIVE VSum(_, _)
VSum(f, S) ==
    IF S = {} THEN Zero3
    ELSE LET x == CHOOSE y \in S : TRUE IN VAdd(f[x], VSum(f, S \ {x}))

\* long loops are run in blocks of LoopBlock iterations, which keeps the
\* recursion that evaluates them shallow
LoopBlock == 30

\* component c of f[i] + ... + f[j]
RECURSIVE SumRun(_, _, _, _)
SumRun(f, c, i, j) == IF i > j THEN 0 ELSE f[i][c] + SumRun(f, c, i + 1, j)

\* component c of f[i] + ... + f[n], block after block
RECURSIVE SumFrom(_, _, _, _)
SumFrom(f, c, i, n) ==
    IF i > n THEN 0
    ELSE SumRun(f, c, i, Min(n, i + LoopBlock - 1)) + SumFrom(f, c, i + LoopBlock, n)

\* f[1] + ... + f[n]
VSumAll(f, n) == << SumFrom(f, 1, 1, n), SumFrom(f, 2, 1, n), SumFrom(f, 3, 1, n) >>

RECURSIVE VSumSeq(_, _)
VSumSeq(f, q) == IF q = << >> THEN Zero3 ELSE VAdd(f[Head(q)], VSumSeq(f, Tail(q)))

\* the force accumulated on vertex i: spring toward rest (stiffness 0.25) plus
\* propagation from each neighbour (propagation 0.25 * 0.1)
vertexForce(sb, i) ==
    LET spring == VScale(VSub(sb.positions[i], originalPositions(i)), -25, 100)
        pull   == [j \in Vertices |-> VScale(VSub(sb.positions[j], sb.positions[i]), 25, 1000)]
    IN  VAdd(spring, VSum(pull, buildNeighborMap[i]))

\* an integration without the constraint on the displacement
integrateUnconstrained(sb, r, f, delta) ==
    LET v1 == VAdd(sb.vertexVelocities[r], VScale(f, delta * 60, 100))
        v3 == ClampLength(VScale(v1, 88, 100), updateMaxVelocity)
    IN  << v3, VAdd(sb.positions[r], VScale(v3, delta * 60, 100)) >>

\* an integration without the cap on the length of the velocity
integrateUnclamped(sb, r, f, delta) ==
    LET v2 == VScale(VAdd(sb.vertexVelocities[r], VScale(f, delta * 60, 100)), 88, 100)
        newPos == VAdd(sb.positions[r], VScale(v2, delta * 60, 100))
        displacement == VSub(newPos, originalPositions(r))
    IN  IF Longer(displacement, maxDisplacement)
        THEN << VScale(v2, 5, 10),
                VAdd(originalPositions(r), VScale(VNormalize(displacement), maxDisplacement, U)) >>
        ELSE << v2, newPos >>

\* one vertex (or one group's representative r) integrated over delta with the
\* force f: the new <<velocity, position>>
integrate(sb, r, f, delta) ==
    LET acceleration == f   \* mass = 1.0
        v1 == VAdd(sb.vertexVelocities[r], VScale(acceleration, delta * 60, 100))
        v2 == VScale(v1, 88, 100)
        v3 == ClampLength(v2, updateMaxVelocity)
        newPos == VAdd(sb.positions[r], VScale(v3, delta * 60, 100))
        displacement == VSub(newPos, originalPositions(r))
        over == Longer(displacement, maxDisplacement)
    IN  IF over
        THEN << VScale(v3, 5, 10),
                VAdd(originalPositions(r), VScale(VNormalize(displacement), maxDisplacement, U)) >>
        ELSE << v3, newPos >>

\* an integration loop that moves the representative of a group only
stepVertexRepresentativeOnly(sb, forces, i, delta) ==
    LET group == buildVertexGroups[i]
    IN  IF Len(group) > 1 /\ i # group[1]
        THEN << sb.vertexVelocities[i], sb.positions[i] >>
        ELSE integrate(sb, group[1], VScale(VSumSeq(forces, group), 1, Len(group)), delta)

\* the integration loop of update: the new <<velocity, position>> of vertex
\* i, from its group's representative when it has duplicates
stepVertex(sb, forces, i, delta) ==
    LET group == buildVertexGroups[i]
    IN  IF Len(group) > 1
        THEN LET representative == group[1]
                 avgForce == VScale(VSumSeq(forces, group), 1, Len(group))
                 r == integrate(sb, representative, avgForce, delta)
                 offset == VSub(originalPositions(i), originalPositions(representative))
             IN  << r[1], VAdd(r[2], offset) >>
        ELSE integrate(sb, i, forces[i], delta)

\* the loops of update, given the forces
stepAll(sb, forces, delta) ==
    LET stepped == [i \in Vertices |-> stepVertex(sb, forces, i, delta)]
    IN  [ sb EXCEPT !.activityTimer = sb.activityTimer - delta,
                    !.vertexVelocities = [i \in Vertices |-> stepped[i][1]],
                    !.positions = [i \in Vertices |-> stepped[i][2]] ]

\* an update that ends the activity only once the timer is below zero
updateExpiresLate(sb, delta) ==
    IF ~sb.isActive THEN sb
    ELSE IF sb.activityTimer - delta < 0
    THEN resetToOriginal([sb EXCEPT !.isActive = FALSE, !.activityTimer = sb.activityTimer - delta])
    ELSE stepAll(sb, [i \in Vertices |-> vertexForce(sb, i)], delta)

\* SoftBodyPhysics.update(delta)
update(sb, delta) ==
    IF ~sb.isActive THEN sb
    ELSE IF sb.activityTimer - delta <= 0
    THEN resetToOriginal([sb EXCEPT !.isActive = FALSE, !.activityTimer = sb.activityTimer - delta])
    ELSE stepAll(sb, [i \in Vertices |-> vertexForce(sb, i)], delta)

-----------------------------------------------------------------------------
(* State.  The variables are the module-level objects of interaction.js.    *)

VARIABLES
    peachMesh,          \* TRUE once setPeachMesh has run (peachMesh # null)
    visible,            \* mesh.visible of every mesh
    peachState,         \* velocity, angularVelocity, isWobbling, softBodies,
                        \* rageLevel, isRespawning, respawnTimer
    peachGroup,         \* position, rotation, scale of the THREE.Group
    particleExplosion,  \* isExploding, explosionTimer, particles
    mouseState,         \* velocityHistory, and sinceSmack: the wall-clock time
                        \* since lastSmackTime, saturated at smackCooldown
    idleTime,           \* the animation loop's idleTime, modulo idlePeriod
    threw,              \* the last handler ended in an uncaught exception
    lastEvent,          \* which handler ran last, and how a pointer event ended
    budget,             \* how many accepted hits and how many frames outside of
                        \* explosion and respawn this run explores
    log                 \* what has happened so far: accepted hits, frames seen
                        \* in the normal state, explosions started, onComplete
                        \* calls; and the current streak of accepted hits of 10
                        \* rage from rage 0 with no frame in between, the
                        \* explosions it started, and the rage the last accepted
                        \* hit reached before the explosion trigger; and whether
                        \* the last frame found the peach wobbling with both
                        \* velocities under the settle threshold, one not zero;
                        \* and the delta that the frames which ran the normal
                        \* physics have added up since the last accepted hit,
                        \* up to the activity duration

vars == << peachMesh, visible, peachState, peachGroup, particleExplosion,
           mouseState, idleTime, threw, lastEvent, budget, log >>

defaultPosition == Zero3
defaultRotation == Zero3

\* what a handler works on: the program's objects plus what it did
World ==
    [ loaded |-> peachMesh, visible |-> visible, ps |-> peachState,
      pg |-> peachGroup, pe |-> particleExplosion, ms |-> mouseState,
      idleTime |-> idleTime, meshes |-> budget.meshes,
      threw |-> FALSE, completed |-> 0, exploded |-> 0, accepted |-> FALSE,
      peak |-> peachState.rageLevel ]

-----------------------------------------------------------------------------
(* particles.js: ParticleExplosion *)

\* ParticleExplosion.isActive
isActive(pe) == pe.isExploding

\* the indices 0, s, 2s, ... below n that createParticlesFromMesh samples,
\* s = max(1, floor(n / 300)), as 1-based vertex numbers
SampledVertices(n) ==
    LET samplingRate == Max(1, n \div 300)
    IN  { i \in 1 .. n : (i - 1) % samplingRate = 0 }

\* the meshes that have a position buffer, in the order handed over
Surfaces(meshes) == Ascending({ m \in Meshes : meshes[m] = "surface" })

\* the soft body of mesh m: setPeachMesh pushes one per mesh with a position
\* buffer, in the order of the meshes
softBodyOf(meshes, m) == Cardinality({ k \in 1 .. m : meshes[k] = "surface" })

RECURSIVE MeshParticles(_, _, _)
MeshParticles(w, m, q) ==
    IF q = << >> THEN << >>
    ELSE << [ mesh |-> m, vertex |-> Head(q),
              position |-> w.ps.softBodies[softBodyOf(w.meshes, m)].positions[Head(q)],
              velocityY |-> 0, fade |-> U ] >> \o MeshParticles(w, m, Tail(q))

\* ParticleExplosion.createParticlesFromMesh: one particle per sampled vertex
\* of every mesh, at the vertex's position (the world matrix is the identity).
\* It reads mesh.geometry.attributes.position.count of every mesh: the first
\* mesh without a position buffer raises a TypeError, which ends the forEach
\* with the particles of the meshes before it
RECURSIVE createParticlesFromMesh(_, _)
createParticlesFromMesh(w, m) ==
    IF m > NumMeshes \/ w.meshes[m] = "bare" THEN << >>
    ELSE MeshParticles(w, m, Ascending(SampledVertices(NumVertices)))
         \o createParticlesFromMesh(w, m + 1)

\* ParticleExplosion.applyExplosionForces: velocity = jittered direction from
\* the centre * force magnitude, plus 2.0 upward; rnd is what Math.random()
\* returns, in hundredths
applyExplosionForces(parts, rnd) ==
    LET n == Len(parts)
        pos == [k \in 1 .. n |-> parts[k].position]
        center == IF n = 0 THEN Zero3 ELSE VScale(VSumAll(pos, n), 1, n)
        jitter == MulDiv(rnd - 50, 50, 100)
        forceMagnitude == MulDiv(800, 70 + MulDiv(rnd, 60, 100), 100)
        dir(k) == VNormalize(VAdd(VNormalize(VSub(pos[k], center)), <<jitter, jitter, jitter>>))
    IN  [k \in 1 .. n |->
            [parts[k] EXCEPT !.velocityY = MulDiv(dir(k)[2], forceMagnitude, U) + 200]]

\* ParticleExplosion.clearParticles
clearParticles(pe) == [pe EXCEPT !.particles = << >>]

\* explode without its guard against an explosion in progress
explodeUnguarded(w, rnd) ==
    [ w EXCEPT !.pe = [ isExploding |-> TRUE, explosionTimer |-> 0,
                        particles |-> applyExplosionForces(createParticlesFromMesh(w, 1), rnd) ],
               !.visible = [m \in Meshes |-> FALSE],
               !.exploded = @ + 1 ]

\* ParticleExplosion.explode; the TypeError of createParticlesFromMesh leaves
\* it before applyExplosionForces
explode(w, rnd) ==
    IF w.pe.isExploding THEN w
    ELSE IF \E m \in Meshes : w.meshes[m] = "bare"
    THEN [ w EXCEPT !.pe = [ isExploding |-> TRUE, explosionTimer |-> 0,
                             particles |-> createParticlesFromMesh(w, 1) ],
                    !.visible = [m \in Meshes |-> FALSE],
                    !.exploded = @ + 1,
                    !.threw = TRUE ]
    ELSE [ w EXCEPT !.pe = [ isExploding |-> TRUE, explosionTimer |-> 0,
                             particles |-> applyExplosionForces(createParticlesFromMesh(w, 1), rnd) ],
                    !.visible = [m \in Meshes |-> FALSE],
                    !.exploded = @ + 1 ]

\* the particle loop of ParticleExplosion.update: gravity on the vertical
\* velocity, and scale / opacity 1 - fadeProgress once the fade has begun
\* (the drawn position and rotation of a particle are not kept)
updateParticle(p, timer, delta) ==
    LET fadeProgress == IF timer > fadeStartTime
                        THEN Min(U, MulDiv(timer - fadeStartTime, U, 150))
                        ELSE 0
    IN  [ p EXCEPT !.velocityY = @ - MulDiv(1500, delta, 100),
                   !.fade = IF fadeProgress = 0 THEN @ ELSE U - fadeProgress ]

\* a callback that resets the soft bodies before it starts the respawn
onCompleteResetFirst(w) ==
    LET shown == [ w EXCEPT !.visible = [m \in Meshes |-> TRUE],
                            !.completed = @ + 1 ]
    IN  IF Len(shown.ps.softBodies) > 0
        THEN [ shown EXCEPT !.threw = TRUE ]
        ELSE [ shown EXCEPT !.ps.isRespawning = TRUE, !.ps.respawnTimer = 0 ]

\* a callback that leaves the meshes hidden
onCompleteStillHidden(w) ==
    LET begun == [ w EXCEPT !.ps.isRespawning = TRUE,
                            !.ps.respawnTimer = 0,
                            !.completed = @ + 1 ]
    IN  IF Len(begun.ps.softBodies) > 0
        THEN [ begun EXCEPT !.threw = TRUE ]
        ELSE begun

\* the onComplete callback setPeachMesh hands to the ParticleExplosion.
\* softBody.resetToOriginalImmediate is not a method of SoftBodyPhysics: the
\* first soft body makes the forEach raise a TypeError, which ends the callback
onComplete(w) ==
    LET shown == [ w EXCEPT !.visible = [m \in Meshes |-> TRUE],
                            !.ps.isRespawning = TRUE,
                            !.ps.respawnTimer = 0,
                            !.completed = @ + 1 ]
    IN  IF Len(shown.ps.softBodies) > 0
        THEN [ shown EXCEPT !.threw = TRUE ]
        ELSE [ shown EXCEPT !.pg = [ position |-> <<0, 0, -10 * Fine>>,
                                     rotation |-> defaultRotation,
                                     scale |-> 1 ],
                            !.ps.velocity = Zero3,
                            !.ps.angularVelocity = Zero3,
                            !.ps.isWobbling = FALSE ]

\* a finish that leaves the particles in the scene
finishExplosionKeepParticles(w) ==
    onComplete([ w EXCEPT !.pe.isExploding = FALSE, !.pe.explosionTimer = 0 ])

\* ParticleExplosion.finishExplosion
finishExplosion(w) ==
    onComplete([ w EXCEPT !.pe = [ clearParticles(w.pe) EXCEPT
                                       !.isExploding = FALSE, !.explosionTimer = 0 ] ])

\* an update that finishes only once the timer has passed fallDuration
updateExplosionLate(w, delta) ==
    IF ~w.pe.isExploding THEN w
    ELSE LET timer == w.pe.explosionTimer + delta
             moved == [ w EXCEPT !.pe.explosionTimer = timer,
                                 !.pe.particles = [k \in 1 .. Len(w.pe.particles) |->
                                     updateParticle(w.pe.particles[k], timer, delta)] ]
         IN  IF timer > fallDuration THEN finishExplosion(moved) ELSE moved

\* ParticleExplosion.update(delta)
updateExplosion(w, delta) ==
    IF ~w.pe.isExploding THEN w
    ELSE LET timer == w.pe.explosionTimer + delta
             moved == [ w EXCEPT !.pe.explosionTimer = timer,
                                 !.pe.particles = [k \in 1 .. Len(w.pe.particles) |->
                                     updateParticle(w.pe.particles[k], timer, delta)] ]
         IN  IF timer >= fallDuration THEN finishExplosion(moved) ELSE moved

-----------------------------------------------------------------------------
(* interaction.js: pointer events *)

RECURSIVE SumX(_)
SumX(h) == IF h = << >> THEN 0 ELSE Head(h)[1] + SumX(Tail(h))
RECURSIVE SumY(_)
SumY(h) == IF h = << >> THEN 0 ELSE Head(h)[2] + SumY(Tail(h))

\* the averaged pointer velocity of checkHoverSmack, in hundredths of a pixel
avgVelocity(h) ==
    IF Len(h) > 0
    THEN << MulDiv(SumX(h), U, Len(h)), MulDiv(SumY(h), U, Len(h)) >>
    ELSE << 0, 0 >>

\* velocityMagnitude = Math.sqrt(avgX^2 + avgY^2)
velocityMagnitude(h) ==
    LET a == avgVelocity(h) IN ISqrt(a[1] * a[1] + a[2] * a[2])

\* a velocityScale without the cap at 3
velocityScaleUncapped(h) == velocityMagnitude(h) \div 20

\* velocityScale = Math.min(velocityMagnitude / 20, 3)
velocityScale(h) == Min(velocityMagnitude(h) \div 20, 3 * U)

\* rageIncrease = 4 + velocityScale * 3
rageIncrease(h) == 4 * U + velocityScale(h) * 3

\* peachState.rageLevel = Math.min(100, rageLevel + rageIncrease)
raisedRage(rage, h) == Min(100 * U, rage + rageIncrease(h))

\* direction = (velocityDir.x, -velocityDir.y, 0.4).normalize()
smackDirection(h) ==
    LET a == avgVelocity(h)
        l == CeilSqrt(a[1] * a[1] + a[2] * a[2])
        velocityDir == IF l = 0 THEN a ELSE << MulDiv(a[1], U, l), MulDiv(a[2], U, l) >>
    IN  VNormalize(<< velocityDir[1], -velocityDir[2], 40 >>)

\* the part of onMouseMove before checkHoverSmack: push the displacement,
\* a history that is never shortened
pushVelocityUnbounded(h, move) == Append(h, move)

\* keep the last maxHistorySize entries
pushVelocity(h, move) ==
    LET pushed == Append(h, move)
    IN  IF Len(pushed) > maxHistorySize THEN Tail(pushed) ELSE pushed

\* setPeachMesh(meshes): one soft body per mesh that has a geometry with a
\* position buffer, and the particle explosion system
setPeachMesh(w) ==
    [ w EXCEPT !.loaded = TRUE,
               !.ps.softBodies = [k \in 1 .. Len(Surfaces(w.meshes)) |-> NewSoftBody] ]

\* the guards without the one on isRespawning
smackBlockedNoRespawn(w) ==
    \/ ~w.loaded
    \/ isActive(w.pe)
    \/ w.ms.sinceSmack < smackCooldown

\* the guards without the one on the explosion
smackBlockedNoExplosion(w) ==
    \/ ~w.loaded
    \/ w.ps.isRespawning
    \/ w.ms.sinceSmack < smackCooldown

\* the guards with a cooldown that ends a millisecond early
smackBlockedShortCooldown(w) ==
    \/ ~w.loaded
    \/ w.ps.isRespawning
    \/ isActive(w.pe)
    \/ w.ms.sinceSmack + 1 < smackCooldown

\* the guards of checkHoverSmack up to the ray test
smackBlocked(w) ==
    \/ ~w.loaded
    \/ w.ps.isRespawning
    \/ isActive(w.pe)
    \/ w.ms.sinceSmack < smackCooldown

\* the end of checkHoverSmack with no particle explosion system to trigger
triggerExplosionAbsent(w, rnd) == w

\* a trigger that leaves the rage at the threshold
triggerExplosionKeepRage(w, rnd) ==
    IF w.ps.rageLevel >= explosionThreshold /\ w.loaded /\ ~isActive(w.pe)
    THEN explode(w, rnd)
    ELSE w

\* a trigger that needs the rage above the threshold
triggerExplosionStrict(w, rnd) ==
    IF w.ps.rageLevel > explosionThreshold /\ w.loaded /\ ~isActive(w.pe)
    THEN [ explode(w, rnd) EXCEPT !.ps.rageLevel = 0 ]
    ELSE w

\* the explosion trigger at the end of checkHoverSmack: explode(), then
\* rageLevel = 0 if explode() has returned
triggerExplosion(w, rnd) ==
    IF w.ps.rageLevel >= explosionThreshold /\ w.loaded /\ ~isActive(w.pe)
    THEN LET blown == explode(w, rnd)
         IN  IF blown.threw THEN blown ELSE [ blown EXCEPT !.ps.rageLevel = 0 ]
    ELSE w

\* playSmackSound(intensity): returns at once when no slap sound has loaded,
\* and builds and starts a Web Audio graph otherwise.  sound tells which, and
\* whether one of the Web Audio calls raises an exception
playSmackSound(w, sound) ==
    IF sound = "throws" THEN [ w EXCEPT !.threw = TRUE ] ELSE w

\* updateRageMeter(): writes the rage level to the two DOM elements of the
\* meter when both exist, and does nothing otherwise; meter tells which
updateRageMeter(w, meter) == w

\* checkHoverSmack after onMouseMove has recorded the displacement.  rayHit:
\* the raycaster intersects a mesh; point, dir: the hit point and the smack
\* direction in the mesh's local space; rnd: what Math.random() returns for
\* the three spin components and for the explosion forces, in hundredths;
\* sink: how the sound and the rage meter behave.  An exception of
\* playSmackSound leaves checkHoverSmack before the rage is raised
checkHoverSmack(w, rayHit, point, dir, rnd, sink) ==
    LET h == w.ms.velocityHistory
        vs == velocityScale(h)
    IN  IF smackBlocked(w) \/ ~rayHit \/ velocityMagnitude(h) < minVelocity
        THEN w
        ELSE
          LET force == 2 * vs
              jiggleForce == MulDiv(18, vs, 100)
              spin(r) == (r - 50) * 5 * vs
              struck == [ w EXCEPT
                  !.ms.sinceSmack = 0,
                  !.accepted = TRUE,
                  !.ps.velocity = VAdd(@, VScale(smackDirection(h), force, 1)),
                  !.ps.angularVelocity = << spin(rnd[1]), spin(rnd[2]), spin(rnd[3]) >>,
                  !.ps.isWobbling = TRUE,
                  !.ps.softBodies = [k \in 1 .. Len(w.ps.softBodies) |->
                      applyImpulse(w.ps.softBodies[k], point, dir, jiggleForce)] ]
              heard == playSmackSound(struck, sink.sound)
              raged == updateRageMeter(
                  [ heard EXCEPT !.ps.rageLevel = raisedRage(@, h),
                                 !.peak = raisedRage(w.ps.rageLevel, h) ],
                  sink.meter)
          IN  IF heard.threw THEN heard ELSE triggerExplosion(raged, rnd[4])

\* onMouseMove(event), the event given by its displacement from the last one
onMouseMove(w, move, rayHit, point, dir, rnd, sink) ==
    checkHoverSmack([ w EXCEPT !.ms.velocityHistory = pushVelocity(@, move) ],
                    rayHit, point, dir, rnd, sink)

-----------------------------------------------------------------------------
(* interaction.js: updatePeachPhysics *)

\* a respawn branch that does not advance respawnTimer
respawnStepFrozen(w, delta) ==
    [ w EXCEPT !.pg.position = << defaultPosition[1], defaultPosition[2], -10 * Fine >>,
               !.pg.scale = 1,
               !.pg.rotation = << @[1], 62832, @[3] >> ]

\* a respawn branch that animates position.z only and leaves x and y alone
respawnStepDepthOnly(w, delta) ==
    LET timer == w.ps.respawnTimer + delta
        linear == Min(U, MulDiv(timer, U, respawnDuration))
        rest == U - linear
        progress == (U * U * U - rest * rest * rest) \div (U * U)
        s == 1 + MulDiv(99, progress, U)
        done == progress >= U
    IN  [ w EXCEPT
            !.ps.respawnTimer = timer,
            !.ps.isRespawning = ~done,
            !.pg.position = << @[1], @[2],
                               -10 * Fine
                                   + MulDiv(defaultPosition[3] + 10 * Fine, progress, U) >>,
            !.pg.scale = IF done THEN U ELSE s,
            !.pg.rotation = IF done THEN defaultRotation
                            ELSE << @[1], MulDiv(U - progress, 62832, U), @[3] >> ]

\* the respawn branch: eased interpolation of position, scale and spin.
\* progress = 1 - (1 - t/duration)^3 is cut to hundredths only after the cube,
\* so that it is 1.0 exactly when t/duration has reached 1.0
respawnStep(w, delta) ==
    LET timer == w.ps.respawnTimer + delta
        linear == Min(U, MulDiv(timer, U, respawnDuration))
        rest == U - linear
        progress == (U * U * U - rest * rest * rest) \div (U * U)
        s == 1 + MulDiv(99, progress, U)
        done == progress >= U
    IN  [ w EXCEPT
            !.ps.respawnTimer = timer,
            !.ps.isRespawning = ~done,
            !.pg.position = << defaultPosition[1], defaultPosition[2],
                               -10 * Fine
                                   + MulDiv(defaultPosition[3] + 10 * Fine, progress, U) >>,
            !.pg.scale = IF done THEN U ELSE s,
            !.pg.rotation = IF done THEN defaultRotation
                            ELSE << @[1], MulDiv(U - progress, 62832, U), @[3] >> ]

\* the ease in-out blend toward the idle pose, from the velocity lengths
idleBlendOf(velocityLength, angularVelLength) ==
    LET velFactor == Max(velocityLength, angularVelLength)
        t == Max(0, Min(U, U - MulDiv(velFactor, U, blendStart)))
    IN  IF velocityLength < blendStart \/ angularVelLength < blendStart
        THEN IF 2 * t < U THEN MulDiv(2 * t, t, U)
             ELSE U - MulDiv(2 * U - 2 * t, 2 * U - 2 * t, 2 * U)
        ELSE 0

\* a wobble branch whose settle check clears isWobbling only
wobbleStepKeepVelocities(w, delta, time) ==
    LET velocityLength == Length(w.ps.velocity)
        angularVelLength == Length(w.ps.angularVelocity)
        idleBlend == idleBlendOf(velocityLength, angularVelLength)
        pos1 == VAdd(w.pg.position, VScale(w.ps.velocity, delta, 100))
        rot1 == VAdd(w.pg.rotation, VScale(w.ps.angularVelocity, delta, 100))
        vel1 == VScale(w.ps.velocity, 9500 - 3 * idleBlend, 10000)
        ang1 == VScale(w.ps.angularVelocity, 9200 - 5 * idleBlend, 10000)
        vel2 == VAdd(vel1, VScale(VSub(defaultPosition, pos1), 5, 100))
        rot2 == VAdd(rot1, VScale(VSub(defaultRotation, rot1), 500 + 5 * idleBlend, 10000))
        targetIdleY == SinCenti(MulDiv(time, 15, 10)) * 20
        targetIdleRotY == SinCenti(MulDiv(time, 5, 10)) * 30
        blendStrength == 5 * idleBlend
        pos2 == IF idleBlend > 0
                THEN << pos1[1], pos1[2] + MulDiv(targetIdleY - pos1[2], blendStrength, 10000), pos1[3] >>
                ELSE pos1
        rot3 == IF idleBlend > 0
                THEN << rot2[1], rot2[2] + MulDiv(targetIdleRotY - rot2[2], blendStrength, 10000), rot2[3] >>
                ELSE rot2
        settled == velocityLength < settleThreshold /\ angularVelLength < settleThreshold
    IN  [ w EXCEPT !.pg.position = pos2,
                   !.pg.rotation = rot3,
                   !.ps.velocity = vel2,
                   !.ps.angularVelocity = ang1,
                   !.ps.isWobbling = ~settled ]

\* a wobble branch without the settle check
wobbleStepNoSettle(w, delta, time) ==
    LET velocityLength == Length(w.ps.velocity)
        angularVelLength == Length(w.ps.angularVelocity)
        idleBlend == idleBlendOf(velocityLength, angularVelLength)
        pos1 == VAdd(w.pg.position, VScale(w.ps.velocity, delta, 100))
        rot1 == VAdd(w.pg.rotation, VScale(w.ps.angularVelocity, delta, 100))
        vel1 == VScale(w.ps.velocity, 9500 - 3 * idleBlend, 10000)
        ang1 == VScale(w.ps.angularVelocity, 9200 - 5 * idleBlend, 10000)
        vel2 == VAdd(vel1, VScale(VSub(defaultPosition, pos1), 5, 100))
        rot2 == VAdd(rot1, VScale(VSub(defaultRotation, rot1), 500 + 5 * idleBlend, 10000))
        targetIdleY == SinCenti(MulDiv(time, 15, 10)) * 20
        targetIdleRotY == SinCenti(MulDiv(time, 5, 10)) * 30
        blendStrength == 5 * idleBlend
        pos2 == IF idleBlend > 0
                THEN << pos1[1], pos1[2] + MulDiv(targetIdleY - pos1[2], blendStrength, 10000), pos1[3] >>
                ELSE pos1
        rot3 == IF idleBlend > 0
                THEN << rot2[1], rot2[2] + MulDiv(targetIdleRotY - rot2[2], blendStrength, 10000), rot2[3] >>
                ELSE rot2
        settled == FALSE
    IN  [ w EXCEPT !.pg.position = pos2,
                   !.pg.rotation = rot3,
                   !.ps.velocity = IF settled THEN Zero3 ELSE vel2,
                   !.ps.angularVelocity = IF settled THEN Zero3 ELSE ang1,
                   !.ps.isWobbling = ~settled ]

\* the isWobbling branch
wobbleStep(w, delta, time) ==
    LET velocityLength == Length(w.ps.velocity)
        angularVelLength == Length(w.ps.angularVelocity)
        idleBlend == idleBlendOf(velocityLength, angularVelLength)
        pos1 == VAdd(w.pg.position, VScale(w.ps.velocity, delta, 100))
        rot1 == VAdd(w.pg.rotation, VScale(w.ps.angularVelocity, delta, 100))
        vel1 == VScale(w.ps.velocity, 9500 - 3 * idleBlend, 10000)
        ang1 == VScale(w.ps.angularVelocity, 9200 - 5 * idleBlend, 10000)
        vel2 == VAdd(vel1, VScale(VSub(defaultPosition, pos1), 5, 100))
        rot2 == VAdd(rot1, VScale(VSub(defaultRotation, rot1), 500 + 5 * idleBlend, 10000))
        targetIdleY == SinCenti(MulDiv(time, 15, 10)) * 20
        targetIdleRotY == SinCenti(MulDiv(time, 5, 10)) * 30
        blendStrength == 5 * idleBlend
        pos2 == IF idleBlend > 0
                THEN << pos1[1], pos1[2] + MulDiv(targetIdleY - pos1[2], blendStrength, 10000), pos1[3] >>
                ELSE pos1
        rot3 == IF idleBlend > 0
                THEN << rot2[1], rot2[2] + MulDiv(targetIdleRotY - rot2[2], blendStrength, 10000), rot2[3] >>
                ELSE rot2
        settled == velocityLength < settleThreshold /\ angularVelLength < settleThreshold
    IN  [ w EXCEPT !.pg.position = pos2,
                   !.pg.rotation = rot3,
                   !.ps.velocity = IF settled THEN Zero3 ELSE vel2,
                   !.ps.angularVelocity = IF settled THEN Zero3 ELSE ang1,
                   !.ps.isWobbling = ~settled ]

\* an idle branch that also puts the peach back on its axis
idleStepRecentring(w, time) ==
    [ w EXCEPT !.pg.position = << defaultPosition[1], SinCenti(MulDiv(time, 15, 10)) * 20,
                                  defaultPosition[3] >>,
               !.pg.rotation = << defaultRotation[1], SinCenti(MulDiv(time, 5, 10)) * 30,
                                  defaultRotation[3] >> ]

\* the idle floating branch
idleStep(w, time) ==
    [ w EXCEPT !.pg.position[2] = SinCenti(MulDiv(time, 15, 10)) * 20,
               !.pg.rotation[2] = SinCenti(MulDiv(time, 5, 10)) * 30 ]

\* rage decay without the lower clamp
decayedRageUnclamped(rage, delta) ==
    IF rage > 0 THEN rage - rageDecayRate * delta ELSE rage

\* a rage decay that stops short of zero: no step smaller than a full one
decayedRageStalls(rage, delta) ==
    IF rage > rageDecayRate * delta THEN rage - rageDecayRate * delta ELSE rage

\* rage decay: Math.max(0, rageLevel - rageDecayRate * delta)
decayedRage(rage, delta) ==
    IF rage > 0 THEN Max(0, rage - rageDecayRate * delta) ELSE rage

\* the normal branch: rage decay, soft bodies, wobble or idle floating
normalStep(w, delta, time) ==
    LET eased == [ w EXCEPT
            !.ps.rageLevel = decayedRage(@, delta),
            !.ps.softBodies = [k \in 1 .. Len(w.ps.softBodies) |->
                                   update(w.ps.softBodies[k], delta)] ]
    IN  IF eased.ps.isWobbling THEN wobbleStep(eased, delta, time)
        ELSE idleStep(eased, time)

\* updatePeachPhysics without the early return of the explosion branch
updatePeachPhysicsNoSkip(w, delta, time) ==
    LET blown == IF w.loaded THEN updateExplosion(w, delta) ELSE w
    IN  IF blown.threw THEN blown
        ELSE IF blown.ps.isRespawning THEN respawnStep(blown, delta)
        ELSE normalStep(blown, delta, time)

\* updatePeachPhysics(delta, idleTime)
updatePeachPhysics(w, delta, time) ==
    LET blown == IF w.loaded THEN updateExplosion(w, delta) ELSE w
    IN  IF blown.threw \/ (blown.loaded /\ isActive(blown.pe)) THEN blown
        ELSE IF blown.ps.isRespawning THEN respawnStep(blown, delta)
        ELSE normalStep(blown, delta, time)

\* animate() without the cap on the clock delta
animateUncapped(w, clockDelta) ==
    LET time == (w.idleTime + clockDelta) % idlePeriod
    IN  updatePeachPhysics([ w EXCEPT !.idleTime = time ], clockDelta, time)

\* an animation loop that stops the idle clock during explosion and respawn
animateIdleWhenNormal(w, clockDelta) ==
    LET delta == Min(clockDelta, maxFrameDelta)
        time == IF isActive(w.pe) \/ w.ps.isRespawning THEN w.idleTime
                ELSE (w.idleTime + delta) % idlePeriod
    IN  updatePeachPhysics([ w EXCEPT !.idleTime = time ], delta, time)

\* animate(): the frame's clock delta capped at 0.1 s and added to idleTime,
\* then the physics
animate(w, clockDelta) ==
    LET delta == Min(clockDelta, maxFrameDelta)
        time == (w.idleTime + delta) % idlePeriod
    IN  updatePeachPhysics([ w EXCEPT !.idleTime = time ], delta, time)

-----------------------------------------------------------------------------
(* Inputs *)

\* pointer displacements between two mousemove events, in pixels
Moves == { <<40, 0>> }
\* hit points and smack directions in the mesh's local space
HitPoints == { <<0, 0, 0>> }
LocalDirections == { <<93, 0, 37>> }
\* what the model loader hands to setPeachMesh: for each mesh, whether its
\* geometry has a position buffer
MeshLists == [ Meshes -> { "surface", "bare" } ]
SurfaceMeshes == [m \in Meshes |-> "surface"]
\* how the sinks of a hit behave: playSmackSound with a sound loaded, with
\* none, or raising an exception; the rage meter's elements present or not
Sinks == [ sound : { "played", "silent", "throws" }, meter : { "shown", "absent" } ]
QuietSinks == { k \in Sinks : k.sound # "throws" }
\* values of Math.random(), in hundredths: for the three spin components and
\* for the explosion forces
Randoms == { <<50, 50, 50, 50>> }
SettleRandoms == { <<50, 50, 50, 50>>, <<90, 10, 60, 50>> }
\* clock.getDelta() of a frame, in centiseconds
ClockDeltas == { 5, 10, 25 }
\* clock deltas of frames that come late
LateDeltas == { 25, 40 }
\* the frame rates of the settle runs: 50, 20 and 10 frames a second
SettleDeltas == { 2, 5, 10 }
\* A run's budget: the accepted hits; the frames that find the peach neither
\* exploding nor respawning; the meshes the loader hands over; the clock
\* deltas, the random numbers, the sink behaviours and the pointer
\* displacements it draws; whether it explores pointer events that are not
\* accepted as hits; the wall-clock times, in milliseconds, that pass between
\* two events.  The
\* budgets of the three kinds of run:
BurstBudget ==
    [ hits |-> MaxBurstHits, frames |-> MaxBurstFrames, settle |-> FALSE,
      meshes |-> SurfaceMeshes, deltas |-> ClockDeltas, randoms |-> Randoms,
      sinks |-> QuietSinks, moves |-> Moves, misses |-> TRUE,
      waits |-> { smackCooldown } ]
Budgets ==
    { [ BurstBudget EXCEPT !.hits = MaxHits, !.frames = 0 ],
      BurstBudget,
      [ BurstBudget EXCEPT !.hits = 1, !.frames = MaxPlayFrames ] }
\* the runs in which every frame comes late
LateBudgets == { [ b EXCEPT !.deltas = LateDeltas ] : b \in Budgets }
\* the runs with a sound sink that may raise an exception
SinkBudgets == { [ BurstBudget EXCEPT !.sinks = Sinks ] }
\* the runs with a mesh that has no position buffer
BareBudgets ==
    { [ b EXCEPT !.meshes = meshes ] :
        b \in Budgets, meshes \in MeshLists \ { SurfaceMeshes } }
\* the idleTime at which the hit of a settle run may come
HitTimes == { 0, 70, 140, 210 }
\* pointer displacements of the rage runs: the slowest that smacks, and two at
\* and beyond the speed of 60 pixels an event at which velocityScale is capped
RageMoves == { <<2, 0>>, <<60, 0>>, <<100, 0>> }
\* the rage runs, hits only: a few of any mix of the three speeds, and as many
\* of the slowest and the fastest as the first explosion needs
RageBudgets ==
    { [ BurstBudget EXCEPT !.hits = MaxMixedHits, !.frames = 0, !.moves = RageMoves,
                           !.misses = FALSE, !.deltas = { maxFrameDelta } ],
      [ BurstBudget EXCEPT !.hits = MaxRageHits, !.frames = 0,
                           !.moves = { <<2, 0>>, <<100, 0>> },
                           !.misses = FALSE, !.deltas = { maxFrameDelta } ] }
\* A settle run: frames at a steady rate, one hit within MaxLeadTime at one of
\* the HitTimes, and then frames for as long as the peach wobbles.  It
\* explores no pointer event but the hit
SettleBudgets ==
    { [ BurstBudget EXCEPT !.hits = 1, !.frames = MaxLeadTime \div d,
                           !.settle = TRUE, !.deltas = { d },
                           !.randoms = SettleRandoms ] : d \in SettleDeltas }

\* wall-clock times between two events: half of the cooldown, and a
\* millisecond less than the cooldown
CoolWaits == { 100, smackCooldown - 1 }
\* A cooldown run: up to MaxCoolHits hits, with pointer events after waits
\* shorter than the cooldown
CoolBudgets ==
    { [ BurstBudget EXCEPT !.hits = MaxCoolHits, !.deltas = { maxFrameDelta },
                           !.waits = CoolWaits ] }
\* pointer displacements of a slow and of a fast pointer
MissMoves == { <<1, 0>>, <<40, 0>> }
\* The runs for the rejected pointer events: hits only, through explosion and
\* respawn; and up to MaxMissHits hits with slow and fast pointer events
MissBudgets ==
    { [ BurstBudget EXCEPT !.hits = MaxHits, !.frames = 0 ],
      [ BurstBudget EXCEPT !.hits = MaxMissHits, !.frames = 0, !.moves = MissMoves ] }

-----------------------------------------------------------------------------
(* Initial state: the module has loaded and initInteraction has run; the    *)
(* model loader has not yet called back.                                    *)

InitWith(budgets) ==
    /\ peachMesh = FALSE
    /\ visible = [m \in Meshes |-> TRUE]
    /\ peachState = [ velocity |-> Zero3, angularVelocity |-> Zero3,
                      isWobbling |-> FALSE, softBodies |-> << >>,
                      rageLevel |-> 0, isRespawning |-> FALSE, respawnTimer |-> 0 ]
    /\ peachGroup = [ position |-> Zero3, rotation |-> Zero3, scale |-> U ]
    /\ particleExplosion = [ isExploding |-> FALSE, explosionTimer |-> 0, particles |-> << >> ]
    /\ mouseState = [ velocityHistory |-> << >>, sinceSmack |-> smackCooldown ]
    /\ idleTime = 0
    /\ threw = FALSE
    /\ lastEvent = "none"
    /\ budget \in budgets
    /\ log = [ hits |-> 0, frames |-> 0, started |-> 0, completed |-> 0,
               streak |-> 0, streakExplosions |-> 0, peak |-> 0, calm |-> FALSE,
               jiggle |-> 0 ]

Init == InitWith(Budgets)

\* the program's objects after a handler has run
Becomes(w) ==
    /\ peachMesh' = w.loaded
    /\ visible' = w.visible
    /\ peachState' = w.ps
    /\ peachGroup' = w.pg
    /\ particleExplosion' = w.pe
    /\ mouseState' = w.ms
    /\ idleTime' = w.idleTime
    /\ threw' = w.threw

\* neither exploding nor respawning
Normal(w) == ~isActive(w.pe) /\ ~w.ps.isRespawning

\* setPeachMesh(meshes), called back by loadPeachModel with the meshes of the
\* run
SetPeachMesh ==
    /\ ~peachMesh
    /\ Becomes(setPeachMesh(World))
    /\ lastEvent' = "load"
    /\ UNCHANGED << budget, log >>

\* a mousemove event; at most budget.hits of them are accepted as hits
PointerMove(move, rayHit, point, dir, rnd, sink) ==
    \E w \in { onMouseMove(World, move, rayHit, point, dir, rnd, sink) } :
        LET tenth == rageIncrease(w.ms.velocityHistory) = 10 * U
                     /\ log.streak >= 0
                     /\ (log.streak = 0 => peachState.rageLevel = 0)
        IN  /\ w.accepted => log.hits < budget.hits
            /\ budget.settle => (w.accepted /\ idleTime \in HitTimes)
            /\ ~budget.misses => w.accepted
            /\ Becomes(w)
            /\ UNCHANGED budget
            /\ lastEvent' = IF w.accepted THEN "hit" ELSE "rejected"
            /\ log' = IF ~w.accepted THEN log
                      ELSE [ log EXCEPT
                               !.hits = @ + 1,
                               !.started = @ + w.exploded,
                               !.streak = IF tenth THEN @ + 1 ELSE -1,
                               !.streakExplosions = @ + w.exploded,
                               !.peak = w.peak,
                               !.jiggle = 0 ]

\* the frames the budget counts: those that find the peach neither exploding
\* nor respawning, and in a settle run not wobbling either
Counted == Normal(World) /\ ~(budget.settle /\ peachState.isWobbling)

\* a frame: animate(); at most budget.frames of them are counted ones
Frame(clockDelta) ==
    /\ Counted => log.frames < budget.frames
    /\ UNCHANGED budget
    /\ \E w \in { animate(World, clockDelta) } :
        /\ Becomes(w)
        /\ lastEvent' = "frame"
        /\ log' = [ log EXCEPT
                      !.frames = IF Counted THEN @ + 1 ELSE @,
                      !.jiggle = IF Normal(World) /\ log.hits > 0
                                 THEN Min(activityDuration,
                                          @ + Min(clockDelta, maxFrameDelta))
                                 ELSE @,
                      !.completed = @ + w.completed,
                      !.streak = IF w.ps.rageLevel = 0 /\ Normal(w) THEN 0 ELSE -1,
                      !.streakExplosions = 0,
                      !.peak = 0,
                      !.calm = /\ Normal(World) /\ peachState.isWobbling
                               /\ Length(peachState.velocity) < settleThreshold
                               /\ Length(peachState.angularVelocity) < settleThreshold
                               /\ << peachState.velocity, peachState.angularVelocity >>
                                    # << Zero3, Zero3 >> ]

\* wall-clock time passes, one of the waits of the run, until the smack
\* cooldown is over
Elapse ==
    /\ mouseState.sinceSmack < smackCooldown
    /\ \E wait \in budget.waits :
          mouseState' = [ mouseState EXCEPT !.sinceSmack = Min(smackCooldown, @ + wait) ]
    /\ UNCHANGED << peachMesh, visible, peachState, peachGroup, particleExplosion,
                    idleTime, threw, lastEvent, budget, log >>

Next ==
    \/ SetPeachMesh
    \/ \E move \in budget.moves, rayHit \in BOOLEAN, point \in HitPoints,
          dir \in LocalDirections, rnd \in budget.randoms, sink \in budget.sinks :
          PointerMove(move, rayHit, point, dir, rnd, sink)
    \/ \E clockDelta \in budget.deltas :
          Frame(clockDelta)
    \/ Elapse

Spec == Init /\ [][Next]_vars

\* a frame that arrives during an explosion or a respawn
BusyFrame ==
    /\ isActive(particleExplosion) \/ peachState.isRespawning
    /\ \E clockDelta \in budget.deltas :
          Frame(clockDelta)

\* the frames keep arriving: requestAnimationFrame(animate) is the first
\* statement of animate, so not even an exception in a frame ends the loop,
\* and every clock delta the frames see is positive
FairSpec == Spec /\ WF_vars(BusyFrame)

\* The settle runs.  The animation clock advances in this step: idleTime
\* changes in a frame and only there, and a frame is possible whenever its
\* budget allows it, so the clock's steps are the frames of the run
Tick ==
    /\ Counted => log.frames < budget.frames
    /\ \E clockDelta \in budget.deltas :
          idleTime' = (idleTime + Min(clockDelta, maxFrameDelta)) % idlePeriod

\* the runs with late frames
LateSpec == InitWith(LateBudgets) /\ [][Next]_vars
\* the runs with a throwing sound sink, and those with a bare mesh
SinkSpec == InitWith(SinkBudgets) /\ [][Next]_vars
BareSpec == InitWith(BareBudgets) /\ [][Next]_vars

\* the runs with pointer events at wall-clock times inside the cooldown window
CoolSpec == InitWith(CoolBudgets) /\ [][Next]_vars

\* the runs with slow pointer events
MissSpec == InitWith(MissBudgets) /\ [][Next]_vars

\* the runs with hits of mixed speeds
RageSpec == InitWith(RageBudgets) /\ [][Next]_vars

SettleInit == InitWith(SettleBudgets)
SettleSpec == SettleInit /\ [][Next]_vars
\* the frames keep arriving, as in FairSpec
SettleFairSpec == SettleSpec /\ WF_idleTime(Tick)

-----------------------------------------------------------------------------
(* The soft body on its own: any sequence of applyImpulse and update calls  *)
(* on the soft body of one mesh.                                            *)

\* hit points and directions in the mesh's local space, and forces (0.18 and
\* the largest jiggleForce, 0.54); the third point has vertices on both sides
\* of the impact radius, the last one is farther than that from every vertex
SoftPoints == { <<0, 0, 0>>, <<60, 0, 0>>, <<-30, 0, 0>>, <<200, 0, 0>> }
SoftDirections == { <<93, 0, 37>>, <<0, 100, 0>> }
SoftForces == { 18, 54 }
\* the delta of an update, in centiseconds
SoftDeltas == { 5, 10 }

\* the runs explored: impulses and updates freely mixed; and impulses
\* followed by updates of 0.1 s for as long as the soft body stays active
SoftBudgets ==
    { [ impulses |-> MaxSoftImpulses, updates |-> MaxSoftUpdates, deltas |-> SoftDeltas ],
      [ impulses |-> MaxLongImpulses,
        updates |-> MaxLongImpulses * (activityDuration \div maxFrameDelta),
        deltas |-> { maxFrameDelta } ] }

SoftInitWith(budgets) ==
    /\ peachMesh = TRUE
    /\ visible = [m \in Meshes |-> TRUE]
    /\ peachState = [ velocity |-> Zero3, angularVelocity |-> Zero3,
                      isWobbling |-> FALSE, softBodies |-> << NewSoftBody >>,
                      rageLevel |-> 0, isRespawning |-> FALSE, respawnTimer |-> 0 ]
    /\ peachGroup = [ position |-> Zero3, rotation |-> Zero3, scale |-> U ]
    /\ particleExplosion = [ isExploding |-> FALSE, explosionTimer |-> 0, particles |-> << >> ]
    /\ mouseState = [ velocityHistory |-> << >>, sinceSmack |-> smackCooldown ]
    /\ idleTime = 0
    /\ threw = FALSE
    /\ lastEvent = "load"
    /\ budget \in budgets
    /\ log = [ hits |-> 0, frames |-> 0, started |-> 0, completed |-> 0,
               streak |-> 0, streakExplosions |-> 0, peak |-> 0, calm |-> FALSE,
               jiggle |-> 0 ]

SoftInit == SoftInitWith(SoftBudgets)

\* softBody.applyImpulse(point, direction, force)
SoftImpulse(point, dir, force) ==
    /\ log.hits < budget.impulses
    /\ \E sb \in { applyImpulse(peachState.softBodies[1], point, dir, force) } :
          peachState' = [ peachState EXCEPT !.softBodies = << sb >> ]
    /\ lastEvent' = "impulse"
    /\ log' = [ log EXCEPT !.hits = @ + 1 ]
    /\ UNCHANGED << peachMesh, visible, peachGroup, particleExplosion, mouseState,
                    idleTime, threw, budget >>

\* softBody.update(delta); the budget counts the updates of an active body
SoftUpdate(delta) ==
    /\ delta \in budget.deltas
    /\ peachState.softBodies[1].isActive => log.frames < budget.updates
    /\ \E sb \in { update(peachState.softBodies[1], delta) } :
          peachState' = [ peachState EXCEPT !.softBodies = << sb >> ]
    /\ lastEvent' = "update"
    /\ log' = [ log EXCEPT !.frames = IF peachState.softBodies[1].isActive
                                      THEN @ + 1 ELSE @ ]
    /\ UNCHANGED << peachMesh, visible, peachGroup, particleExplosion, mouseState,
                    idleTime, threw, budget >>

SoftNext ==
    \/ \E point \in SoftPoints, dir \in SoftDirections, force \in SoftForces :
          SoftImpulse(point, dir, force)
    \/ \E delta \in budget.deltas : SoftUpdate(delta)

\* some applyImpulse call happens in this step, and some update call
ImpulseStep ==
    \E point \in SoftPoints, dir \in SoftDirections, force \in SoftForces :
        SoftImpulse(point, dir, force)
UpdateStep ==
    \E delta \in budget.deltas : SoftUpdate(delta)

SoftSpec == SoftInit /\ [][SoftNext]_vars

\* The runs at 100 frames a second with impulses in opposite directions, at
\* the rest position of the first vertex and at its largest displacement: a
\* vertex pushed there and then hit back moves less than that displacement in
\* an update, so nothing but the cap of the integration bounds its velocity
CapPoints == { <<0, 0, 0>>, <<0, 15, 0>> }
CapDirections == { <<0, 100, 0>>, <<0, -100, 0>> }
CapDeltas == { 1 }
CapBudgets ==
    { [ impulses |-> MaxSoftImpulses, updates |-> MaxSoftUpdates, deltas |-> CapDeltas ] }
CapNext ==
    \/ \E point \in CapPoints, dir \in CapDirections, force \in SoftForces :
          SoftImpulse(point, dir, force)
    \/ \E delta \in budget.deltas : SoftUpdate(delta)
CapSpec == SoftInitWith(CapBudgets) /\ [][CapNext]_vars

-----------------------------------------------------------------------------
(* The constructor on its own: new SoftBodyPhysics(mesh) on geometries other *)
(* than the model's mesh.                                                    *)

\* SoftBodyPhysics.init on a geometry: the original positions, the zero
\* velocities, the vertex groups and the neighbor map
init(geometry) ==
    [ originalPositions |-> geometry.positions,
      vertexVelocities  |-> [i \in DOMAIN geometry.positions |-> Zero3],
      vertexGroups      |-> vertexGroupsOf(geometry.positions),
      neighbors         |-> neighborMapOf(geometry),
      isActive          |-> FALSE,
      activityTimer     |-> 0 ]

\* positions of a seam vertex, in units of 0.00001: at the first vertex, at
\* 0.00004, 0.00006 and 0.00014 from it, and far from it; level with it or
\* 0.00003 behind
SeamPositions == { <<x, 0, z>> : x \in { 0, 4, 6, 14, 60000 }, z \in { 0, 3 } }

\* three-vertex geometries: without an index buffer, and with one that names
\* their triangle twice, the second time the other way round
SmallGeometries ==
    { [ positions |-> << <<0, 0, 0>>, p, q >>, indexed |-> n,
        index |-> IF n THEN << <<1, 2, 3>>, <<1, 3, 2>> >> ELSE << >> ] :
        p \in SeamPositions, q \in SeamPositions, n \in BOOLEAN }

\* vertex counts on both sides of 200, from which on the inner loop of
\* buildProximityNeighbors skips vertices
LineCounts == { 150, 200 }

\* geometries without an index buffer: count vertices on a line, 0.1 apart
LineGeometries ==
    { [ positions |-> [i \in 1 .. count |-> <<10000 * (i - 1), 0, 0>>],
        indexed |-> FALSE, index |-> << >> ] : count \in LineCounts }

GeomInit ==
    /\ peachMesh = FALSE
    /\ visible = [m \in Meshes |-> TRUE]
    /\ peachState = [ velocity |-> Zero3, angularVelocity |-> Zero3,
                      isWobbling |-> FALSE, softBodies |-> << >>,
                      rageLevel |-> 0, isRespawning |-> FALSE, respawnTimer |-> 0 ]
    /\ peachGroup = [ position |-> Zero3, rotation |-> Zero3, scale |-> U ]
    /\ particleExplosion = [ isExploding |-> FALSE, explosionTimer |-> 0, particles |-> << >> ]
    /\ mouseState = [ velocityHistory |-> << >>, sinceSmack |-> smackCooldown ]
    /\ idleTime = 0
    /\ threw = FALSE
    /\ lastEvent = "none"
    /\ budget \in { [ geometry |-> g ] : g \in SmallGeometries \cup LineGeometries }
    /\ log = [ hits |-> 0, frames |-> 0, started |-> 0, completed |-> 0,
               streak |-> 0, streakExplosions |-> 0, peak |-> 0, calm |-> FALSE,
               jiggle |-> 0 ]

\* new SoftBodyPhysics(mesh) for the mesh of the run, as setPeachMesh calls it
Construct ==
    /\ ~peachMesh
    /\ peachMesh' = TRUE
    /\ peachState' = [ peachState EXCEPT !.softBodies = << init(budget.geometry) >> ]
    /\ lastEvent' = "load"
    /\ UNCHANGED << visible, peachGroup, particleExplosion, mouseState, idleTime,
                    threw, budget, log >>

GeomSpec == GeomInit /\ [][Construct]_vars

-----------------------------------------------------------------------------
(* ParticleExplosion.explode on meshes of many vertices *)

\* the largest number of meshes handed to the ParticleExplosion
MaxSampleMeshes == 2

\* positions.count of a mesh: none, one, and counts on both sides of 300, 600
\* and 900, where floor(count / 300) changes
VertexCounts == { 0, 1, 299, 300, 301, 599, 600, 900 }

\* the meshes of a run, each given by its vertex count
MeshCounts == UNION { [1 .. k -> VertexCounts] : k \in 1 .. MaxSampleMeshes }

\* the for loop of createParticlesFromMesh over one mesh, from index i on: a
\* particle at vertex i (numbered from 1 here), then i += samplingRate.  The
\* vertices lie on a line, 0.01 apart
\* a loop that also takes the index equal to the vertex count
RECURSIVE sampleBlockInclusive(_, _, _, _, _)
sampleBlockInclusive(m, i, count, samplingRate, left) ==
    IF i <= count /\ left > 0
    THEN << [ mesh |-> m, vertex |-> i + 1, position |-> <<i, 0, 0>>,
              velocityY |-> 0, fade |-> U ] >>
         \o sampleBlockInclusive(m, i + samplingRate, count, samplingRate, left - 1)
    ELSE << >>

RECURSIVE sampleBlock(_, _, _, _, _)
sampleBlock(m, i, count, samplingRate, left) ==
    IF i < count /\ left > 0
    THEN << [ mesh |-> m, vertex |-> i + 1, position |-> <<i, 0, 0>>,
              velocityY |-> 0, fade |-> U ] >>
         \o sampleBlock(m, i + samplingRate, count, samplingRate, left - 1)
    ELSE << >>

RECURSIVE sampleFrom(_, _, _, _)
sampleFrom(m, i, count, samplingRate) ==
    IF i < count
    THEN sampleBlock(m, i, count, samplingRate, LoopBlock)
         \o sampleFrom(m, i + LoopBlock * samplingRate, count, samplingRate)
    ELSE << >>

\* createParticlesFromMesh over the meshes m, m + 1, ... of the given counts
RECURSIVE createParticlesOf(_, _)
createParticlesOf(counts, m) ==
    IF m > Len(counts) THEN << >>
    ELSE sampleFrom(m, 0, counts[m], Max(1, counts[m] \div 300))
         \o createParticlesOf(counts, m + 1)

\* ParticleExplosion.explode on meshes of the given counts
explodeMeshes(pe, counts, rnd) ==
    IF pe.isExploding THEN pe
    ELSE [ isExploding |-> TRUE, explosionTimer |-> 0,
           particles |-> applyExplosionForces(createParticlesOf(counts, 1), rnd) ]

SampleInit ==
    /\ peachMesh = TRUE
    /\ visible = [m \in Meshes |-> TRUE]
    /\ peachState = [ velocity |-> Zero3, angularVelocity |-> Zero3,
                      isWobbling |-> FALSE, softBodies |-> << >>,
                      rageLevel |-> 0, isRespawning |-> FALSE, respawnTimer |-> 0 ]
    /\ peachGroup = [ position |-> Zero3, rotation |-> Zero3, scale |-> U ]
    /\ particleExplosion = [ isExploding |-> FALSE, explosionTimer |-> 0, particles |-> << >> ]
    /\ mouseState = [ velocityHistory |-> << >>, sinceSmack |-> smackCooldown ]
    /\ idleTime = 0
    /\ threw = FALSE
    /\ lastEvent = "load"
    /\ budget \in { [ counts |-> c, randoms |-> { 50 } ] : c \in MeshCounts }
    /\ log = [ hits |-> 0, frames |-> 0, started |-> 0, completed |-> 0,
               streak |-> 0, streakExplosions |-> 0, peak |-> 0, calm |-> FALSE,
               jiggle |-> 0 ]

\* particleExplosion.explode() on the meshes of the run
ExplodeMeshes ==
    /\ ~isActive(particleExplosion)
    /\ \E rnd \in budget.randoms :
          particleExplosion' = explodeMeshes(particleExplosion, budget.counts, rnd)
    /\ visible' = [m \in Meshes |-> FALSE]
    /\ log' = [ log EXCEPT !.started = @ + 1 ]
    /\ lastEvent' = "explode"
    /\ UNCHANGED << peachMesh, peachState, peachGroup, mouseState, idleTime,
                    threw, budget >>

SampleSpec == SampleInit /\ [][ExplodeMeshes]_vars

-----------------------------------------------------------------------------
(* Properties *)

\* some pointer event happens in this step
PointerStep ==
    \E move \in budget.moves, rayHit \in BOOLEAN, point \in HitPoints,
       dir \in LocalDirections, rnd \in budget.randoms, sink \in budget.sinks :
       PointerMove(move, rayHit, point, dir, rnd, sink)

\* some frame happens in this step
FrameStep ==
    \E clockDelta \in budget.deltas : Frame(clockDelta)

\* the three states of the rage machine, and the one it must never be in
Phase ==
    IF isActive(particleExplosion) /\ peachState.isRespawning THEN "Both"
    ELSE IF isActive(particleExplosion) THEN "Exploding"
    ELSE IF peachState.isRespawning THEN "Respawning"
    ELSE "Normal"

\* C1: in every reachable state the rage level lies in [0, 100]; so does the
\* value an accepted hit stores before the explosion trigger reads it.
C1_RageInRange ==
    /\ 0 <= peachState.rageLevel /\ peachState.rageLevel <= 100 * U
    /\ 0 <= log.peak /\ log.peak <= 100 * U

\* C1 witness: the eleventh accepted hit, with a frame among the hits, has
\* been cut to 100 (without the cut it would have stored more than 108)
C1_Witness ==
    /\ lastEvent = "hit" /\ log.hits = 11 /\ log.frames > 0
    /\ log.started = 1 /\ log.peak = 100 * U

\* C2: a pointer event that arrives while the explosion is active or while
\* isRespawning is TRUE is not accepted: it leaves rageLevel, velocity,
\* angularVelocity, isWobbling and every soft body's vertex velocities,
\* activity flag and activity timer as they were.
C2_NoHitWhileBusy ==
    [][ (PointerStep /\ (isActive(particleExplosion) \/ peachState.isRespawning))
        => /\ lastEvent' = "rejected"
           /\ peachState'.rageLevel = peachState.rageLevel
           /\ peachState'.velocity = peachState.velocity
           /\ peachState'.angularVelocity = peachState.angularVelocity
           /\ peachState'.isWobbling = peachState.isWobbling
           /\ Len(peachState'.softBodies) = Len(peachState.softBodies)
           /\ \A k \in 1 .. Len(peachState.softBodies) :
                /\ peachState'.softBodies[k].vertexVelocities
                       = peachState.softBodies[k].vertexVelocities
                /\ peachState'.softBodies[k].isActive = peachState.softBodies[k].isActive
                /\ peachState'.softBodies[k].activityTimer
                       = peachState.softBodies[k].activityTimer ]_vars

\* C2 witness: a pointer event was turned away during a respawn although the
\* smack cooldown was over
C2_Witness ==
    /\ lastEvent = "rejected" /\ peachState.isRespawning
    /\ peachState.respawnTimer > 0
    /\ mouseState.sinceSmack = smackCooldown
    /\ Len(mouseState.velocityHistory) = maxHistorySize

\* C3: an accepted hit that raises the rage to the threshold while no explosion
\* is active starts the explosion in the same event: after it the explosion
\* is active, the rage is 0 and every mesh is hidden.
C3_ThresholdExplodes ==
    (lastEvent = "hit" /\ log.peak >= explosionThreshold)
    => /\ isActive(particleExplosion)
       /\ particleExplosion.explosionTimer = 0
       /\ peachState.rageLevel = 0
       /\ \A m \in Meshes : ~visible[m]

\* C3 witness: the state right after such a hit
C3_Witness ==
    /\ lastEvent = "hit" /\ log.peak = explosionThreshold
    /\ isActive(particleExplosion) /\ log.started = 1

\* C4: the machine moves only Normal -> Exploding (by an accepted hit),
\* Exploding -> Respawning (by the frame in which the explosion completes) and
\* Respawning -> Normal (by the frame in which the respawn animation completes);
\* the explosion and the respawn are never both in progress; and no pointer
\* event changes the timer of an explosion or of a respawn in progress.
C4_Transitions ==
    [][ /\ Phase' # "Both"
        /\ Phase' # Phase =>
             \/ /\ Phase = "Normal" /\ Phase' = "Exploding"
                /\ PointerStep /\ lastEvent' = "hit"
             \/ /\ Phase = "Exploding" /\ Phase' = "Respawning"
                /\ FrameStep /\ log'.completed = log.completed + 1
             \/ /\ Phase = "Respawning" /\ Phase' = "Normal"
                /\ FrameStep /\ peachState'.respawnTimer >= respawnDuration
        /\ (PointerStep /\ Phase # "Normal") =>
             /\ Phase' = Phase
             /\ particleExplosion' = particleExplosion
             /\ peachState'.respawnTimer = peachState.respawnTimer ]_vars

\* C4 witness: a whole cycle has been walked
C4_Witness ==
    /\ Phase = "Normal" /\ lastEvent = "frame"
    /\ log.started = 1 /\ log.completed = 1
    /\ peachState.respawnTimer >= respawnDuration

\* C5: while frames keep arriving, every explosion in progress comes to its
\* end and starts the respawn, and every respawn comes to its end and leaves
\* the machine in Normal, in every cycle.
C5_CycleCompletes ==
    /\ (Phase = "Exploding") ~> (Phase = "Respawning")
    /\ (Phase = "Respawning") ~> (Phase = "Normal")

\* C5 witness: the second cycle is over and hits are accepted again
C5_Witness ==
    /\ Phase = "Normal" /\ log.started = 2 /\ log.completed = 2
    /\ lastEvent = "hit"

\* the state right after the frame in which an explosion has completed
RespawnBegins ==
    /\ lastEvent = "frame" /\ log.completed > 0
    /\ peachState.isRespawning /\ peachState.respawnTimer = 0

\* C6: when the explosion completes and the respawn begins, velocity and
\* angularVelocity are zero, isWobbling is FALSE, the peach is at z = -10 with
\* scale 0.01, and every soft body is idle with every vertex at its rest
\* position and at rest.
C6_RespawnBeginsClean ==
    RespawnBegins
    => /\ peachState.velocity = Zero3
       /\ peachState.angularVelocity = Zero3
       /\ ~peachState.isWobbling
       /\ peachGroup.position = <<0, 0, -10 * Fine>>
       /\ peachGroup.scale = 1
       /\ \A k \in 1 .. Len(peachState.softBodies) :
            /\ ~peachState.softBodies[k].isActive
            /\ \A i \in Vertices :
                 /\ peachState.softBodies[k].positions[i] = originalPositions(i)
                 /\ peachState.softBodies[k].vertexVelocities[i] = Zero3

\* C7: no frame and no pointer event ends in an uncaught exception.
C7_NoException == ~threw

\* C8: explode() called while the explosion is active changes nothing:
\* particles, their state, explosionTimer and the meshes stay as they are.
C8_ExplodeWhileActive ==
    isActive(particleExplosion)
    => \A rnd \in Randoms : explode(World, rnd[4]) = World

\* C8 witness: an explosion under way, particles in flight
C8_Witness ==
    /\ isActive(particleExplosion)
    /\ particleExplosion.explosionTimer > fadeStartTime
    /\ Len(particleExplosion.particles) > 0

\* C9: for every explosion started, onComplete runs exactly once: in the first
\* frame that brings the accumulated explosionTimer to 4.0 s or more, in no
\* earlier frame, and in no later step until another explosion has started.
C9_CompleteOnce ==
    [][ /\ log'.completed
             = log'.started - (IF isActive(particleExplosion') THEN 1 ELSE 0)
        /\ isActive(particleExplosion')
             => particleExplosion'.explosionTimer < fallDuration
        /\ log'.completed # log.completed
             => /\ isActive(particleExplosion) /\ FrameStep
                /\ log'.completed = log.completed + 1
        /\ isActive(particleExplosion)
             => \A clockDelta \in ClockDeltas :
                  Frame(clockDelta)
                  => (log'.completed = log.completed + 1
                      <=> particleExplosion.explosionTimer
                              + Min(clockDelta, maxFrameDelta) >= fallDuration) ]_vars

\* C9 witness: the respawn is under way, its explosion has completed once
C9_Witness ==
    /\ log.started = 1 /\ log.completed = 1
    /\ peachState.isRespawning /\ peachState.respawnTimer > 0
    /\ ~isActive(particleExplosion)

\* C10: from rage 0 in Normal, accepted hits of 10 rage each with no frame
\* between them bring the rage to 10, 20, ..., 90 without an explosion; the
\* tenth reaches 100, never more, and starts exactly one explosion.
C10_TenHits ==
    /\ log.streak <= 10
    /\ log.streak \in 1 .. 9
         => /\ peachState.rageLevel = log.streak * 10 * U
            /\ log.peak = peachState.rageLevel
            /\ log.streakExplosions = 0
            /\ ~isActive(particleExplosion)
    /\ log.streak = 10
         => /\ log.peak = 100 * U
            /\ log.streakExplosions = 1
            /\ isActive(particleExplosion)
            /\ peachState.rageLevel = 0

\* C10 witness: the tenth hit of such a streak has just been accepted
C10_Witness == lastEvent = "hit" /\ log.streak = 10

\* the soft bodies there are
SoftBodies == { peachState.softBodies[k] : k \in 1 .. Len(peachState.softBodies) }

\* the square of the distance of vertex i from its rest position
SquaredDisplacement(sb, i) ==
    LET d == VSub(sb.positions[i], originalPositions(i))
    IN  d[1] * d[1] + d[2] * d[2] + d[3] * d[3]

\* C11: after any sequence of applyImpulse and update calls, every vertex of
\* a soft body, grouped or not, is at most maxDisplacement from its rest
\* position.
C11_DisplacementCapped ==
    \A sb \in SoftBodies : \A i \in Vertices :
        SquaredDisplacement(sb, i) <= maxDisplacement * maxDisplacement

\* C11 witness: an update has held back a grouped vertex and a vertex on its
\* own at the cap, both of them moving
C11_Witness ==
    /\ lastEvent = "update"
    /\ \E sb \in SoftBodies : \E i, j \in Vertices :
         /\ Len(buildVertexGroups[i]) > 1 /\ Len(buildVertexGroups[j]) = 1
         /\ VLen(VSub(sb.positions[i], originalPositions(i))) >= maxDisplacement - 1
         /\ VLen(VSub(sb.positions[j], originalPositions(j))) >= maxDisplacement - 1
         /\ sb.vertexVelocities[i] # Zero3 /\ sb.vertexVelocities[j] # Zero3

\* an update of an active soft body happens in this step
ActiveUpdateStep ==
    /\ peachState.softBodies[1].isActive
    /\ \E delta \in SoftDeltas : SoftUpdate(delta)

\* vertices i and j are in the same vertex group
SameGroup(i, j) == buildVertexGroups[i] = buildVertexGroups[j]

C13_ExpiryResets ==
    [][ \A delta \in SoftDeltas :
          ( /\ SoftUpdate(delta)
            /\ peachState.softBodies[1].isActive
            /\ peachState.softBodies[1].activityTimer - delta <= 0 )
          => /\ ~peachState'.softBodies[1].isActive
             /\ \A i \in Vertices :
                  /\ ExactPosition(peachState'.softBodies[1].positions[i], i)
                       = ExactPosition(originalPositions(i), i)
                  /\ peachState'.softBodies[1].vertexVelocities[i] = Zero3 ]_vars

\* C13 witness: the timer has run out in an update, after an impulse and
\* updates that had moved the vertices
C13_Witness ==
    /\ lastEvent = "update" /\ log.hits > 0
    /\ log.frames >= activityDuration \div maxFrameDelta
    /\ ~peachState.softBodies[1].isActive
    /\ peachState.softBodies[1].activityTimer <= 0

\* C14: a tick in the normal state that starts with the peach wobbling and
\* with both the linear and the angular velocity shorter than the settle
\* threshold of 0.01 ends with isWobbling false and with both velocities
\* exactly (0, 0, 0).
C14_SettleInOneTick ==
    [][ ( /\ FrameStep
          /\ Normal(World)
          /\ peachState.isWobbling
          /\ Length(peachState.velocity) < settleThreshold
          /\ Length(peachState.angularVelocity) < settleThreshold )
        => /\ ~peachState'.isWobbling
           /\ peachState'.velocity = Zero3
           /\ peachState'.angularVelocity = Zero3 ]_vars

\* C14 witness: such a tick has run, from velocities that were not yet zero
C14_Witness ==
    /\ lastEvent = "frame" /\ log.calm
    /\ ~peachState.isWobbling
    /\ peachState.velocity = Zero3 /\ peachState.angularVelocity = Zero3

\* C15: the tick of the respawn animation at which respawnTimer reaches
\* respawnDuration (progress 1.0) leaves the scale exactly (1, 1, 1), the
\* rotation exactly the rest rotation, the position at the rest position and
\* isRespawning false.
C15_RespawnEndsAtRest ==
    [][ ( /\ FrameStep
          /\ Phase = "Respawning"
          /\ peachState'.respawnTimer >= respawnDuration )
        => /\ peachGroup'.scale = U
           /\ peachGroup'.rotation = defaultRotation
           /\ peachGroup'.position = defaultPosition
           /\ ~peachState'.isRespawning ]_vars

\* C15 witness: the tick that ends a respawn has just run
C15_Witness ==
    /\ lastEvent = "frame" /\ log.completed > 0
    /\ Phase = "Normal"
    /\ peachState.respawnTimer >= respawnDuration
    /\ peachState.respawnTimer < respawnDuration + maxFrameDelta
    /\ ~peachState.isRespawning
    /\ peachGroup.position = defaultPosition /\ peachGroup.scale = U

\* C16: after an accepted hit, if no further hit is accepted and the ticks
\* keep arriving, the peach eventually stops wobbling (isWobbling becomes
\* false).  A settle run accepts one hit.
C16_WobbleSettles ==
    (log.hits = budget.hits /\ peachState.isWobbling) ~> ~peachState.isWobbling

\* C16 witness: the hit of a settle run was accepted and the wobble it started
\* has ended
C16_Witness ==
    /\ budget.settle /\ log.hits = budget.hits
    /\ lastEvent = "frame"
    /\ ~peachState.isWobbling
    /\ peachState.softBodies # << >> /\ ~peachState.softBodies[1].isActive

\* C17: an accepted hit applies all of its core effects, whatever the sound
\* and the rage meter do, an exception of playSmackSound included: the peach
\* wobbles, every soft body has taken the impulse, and the rage is raised
\* or, where the raised rage reaches the threshold, the explosion is
\* running with the rage back at 0.
C17_HitAppliedWhole ==
    [][ (PointerStep /\ lastEvent' = "hit")
        => /\ peachState'.isWobbling
           /\ \A k \in 1 .. Len(peachState'.softBodies) :
                /\ peachState'.softBodies[k].isActive
                /\ peachState'.softBodies[k].activityTimer = activityDuration
           /\ LET raised == raisedRage(peachState.rageLevel,
                                       mouseState'.velocityHistory)
              IN  IF raised >= explosionThreshold
                  THEN isActive(particleExplosion') /\ peachState'.rageLevel = 0
                  ELSE peachState'.rageLevel = raised ]_vars

\* C18: a mesh without geometry or position buffer gets no soft body and
\* raises no error at setup; with such a mesh present nothing the peach does
\* (hits, wobble, rage, explosion, respawn) ends in an exception, and the
\* rage is back at 0 when the explosion has been set off.
C18_BareMeshPlays ==
    /\ ~threw
    /\ peachMesh => Len(peachState.softBodies) = Len(Surfaces(budget.meshes))
    /\ isActive(particleExplosion) => peachState.rageLevel = 0

\* C19: every delta passed to updatePeachPhysics is at most 0.1 s, however
\* late the frame.  The delta shows in what the physics does with it: the
\* explosion timer or the respawn timer grows by it, the rage decays by at
\* most rageDecayRate times it, and idleTime has grown by it.
C19_DeltaCapped ==
    [][ FrameStep
        => /\ (idleTime' - idleTime) % idlePeriod <= maxFrameDelta
           /\ (isActive(particleExplosion) /\ isActive(particleExplosion'))
                => particleExplosion'.explosionTimer
                     <= particleExplosion.explosionTimer + maxFrameDelta
           /\ (Phase = "Respawning")
                => peachState'.respawnTimer <= peachState.respawnTimer + maxFrameDelta
           /\ peachState'.rageLevel
                >= peachState.rageLevel - rageDecayRate * maxFrameDelta ]_vars

\* C19 witness: in a run whose clock deltas are all above 0.1 s, frames have
\* advanced an explosion
C19_Witness ==
    /\ \A d \in budget.deltas : d > maxFrameDelta
    /\ lastEvent = "frame"
    /\ isActive(particleExplosion)
    /\ particleExplosion.explosionTimer = 2 * maxFrameDelta

C21_HiddenWhileExploding ==
    \A m \in Meshes : visible[m] = ~isActive(particleExplosion)

\* the explosion has run its course and its completion has shown the meshes
\* again, which the explosion had hidden
C21_Witness ==
    /\ log.started > 0 /\ log.completed = log.started
    /\ ~isActive(particleExplosion)
    /\ \A m \in Meshes : visible[m]

\* C22: after every applyImpulse call the soft body is active with an
\* activity timer of exactly 2.5 s, whatever the timer was before and whether
\* or not a vertex lies within the impact radius.
C22_ImpulseRestartsTimer ==
    [][ ImpulseStep
        => /\ peachState'.softBodies[1].isActive
           /\ peachState'.softBodies[1].activityTimer = activityDuration ]_vars

\* a second impulse, after updates of the active body had run the timer down,
\* has restarted the timer
C22_Witness ==
    /\ lastEvent = "impulse" /\ log.hits = 2 /\ log.frames > 1
    /\ peachState.softBodies[1].isActive
    /\ peachState.softBodies[1].activityTimer = activityDuration

\* the impulse a vertex at the given distance below the impact radius is to
\* gain: direction * force * (1 - distance / impactRadius)^3
cubicImpulse(direction, force, distance) ==
    LET falloff == U - MulDiv(distance, U, impactRadius)
    IN  VScale(direction,
               MulDiv(MulDiv(MulDiv(force, falloff, U), falloff, U), falloff, U), U)

\* the soft body is at rest: every vertex velocity is zero
AtRest(sb) == \A i \in Vertices : sb.vertexVelocities[i] = Zero3

\* C23 as stated: applyImpulse on a soft body whose vertices have zero
\* velocity gives each vertex at a distance d below the impact radius the
\* velocity direction * force * (1 - d/R)^3, and leaves every vertex at the
\* radius or beyond with zero velocity.
C23_CubicImpulse ==
    [][ \A point \in SoftPoints, dir \in SoftDirections, force \in SoftForces :
          (SoftImpulse(point, dir, force) /\ AtRest(peachState.softBodies[1]))
          => \A i \in Vertices :
               LET distance == VLen(VSub(peachState.softBodies[1].positions[i], point))
               IN  peachState'.softBodies[1].vertexVelocities[i]
                     = IF distance < impactRadius
                       THEN cubicImpulse(dir, force, distance)
                       ELSE Zero3 ]_vars

\* C23 amended: the velocity gained is direction * force * (1 - d/R)^3 cut
\* to the length 0.5 when it is longer; vertices at the radius or beyond keep
\* their zero velocity.
C23_CubicImpulseCapped ==
    [][ \A point \in SoftPoints, dir \in SoftDirections, force \in SoftForces :
          (SoftImpulse(point, dir, force) /\ AtRest(peachState.softBodies[1]))
          => \A i \in Vertices :
               LET distance == VLen(VSub(peachState.softBodies[1].positions[i], point))
               IN  peachState'.softBodies[1].vertexVelocities[i]
                     = IF distance < impactRadius
                       THEN ClampLength(cubicImpulse(dir, force, distance),
                                        impulseMaxVelocity)
                       ELSE Zero3 ]_vars

\* the first impulse, at a point 0.3 from the first two vertices and 0.9 from
\* the third: the near ones have gained a velocity under the cap, the far one
\* none
C23_Witness ==
    /\ lastEvent = "impulse" /\ log.hits = 1 /\ log.frames = 0
    /\ peachState.softBodies[1].vertexVelocities[1] # Zero3
    /\ ~Longer(peachState.softBodies[1].vertexVelocities[1], 20)
    /\ peachState.softBodies[1].vertexVelocities[3] = Zero3

\* the soft body the constructor has built, and its vertices
Built == peachState.softBodies[1]
BuiltVertices == DOMAIN Built.originalPositions

\* two positions differ by at most the tolerance on each axis
WithinTolerance(p, q) ==
    \A axis \in 1 .. 3 : Abs(p[axis] - q[axis]) <= tolerance

\* the vertex groups form a partition: every vertex is in its own group, every
\* member of a group has that same group, so no vertex is in two groups
GroupsPartition ==
    \A i \in BuiltVertices :
        /\ i \in Range(Built.vertexGroups[i])
        /\ \A j \in Range(Built.vertexGroups[i]) :
              Built.vertexGroups[j] = Built.vertexGroups[i]

\* C24: buildVertexGroups puts any two vertices whose positions differ by at
\* most the tolerance of 0.0001 on each axis into the same group, and the
\* groups form a partition of the vertices.
C24_GroupsByTolerance ==
    peachMesh =>
        /\ \A i, j \in BuiltVertices :
              WithinTolerance(Built.originalPositions[i], Built.originalPositions[j])
                  => Built.vertexGroups[i] = Built.vertexGroups[j]
        /\ GroupsPartition

\* C25: the neighbor map is symmetric whichever way it was built, and no
\* neighbor list holds an index twice.
C25_NeighborsSymmetric ==
    peachMesh =>
        \A a \in BuiltVertices :
            /\ \A b \in Range(Built.neighbors[a]) : a \in Range(Built.neighbors[b])
            /\ Cardinality(Range(Built.neighbors[a])) = Len(Built.neighbors[a])

\* C26: in every reachable state every vertex velocity of a soft body is at
\* most 0.5 long (the cap of applyImpulse), and right after an update of an
\* active soft body every vertex velocity is at most 0.3 long (the cap of the
\* integration).
C26_VelocityCaps ==
    /\ [](\A k \in DOMAIN peachState.softBodies : \A i \in Vertices :
            ~Longer(peachState.softBodies[k].vertexVelocities[i], impulseMaxVelocity))
    /\ [][ (UpdateStep /\ peachState.softBodies[1].isActive)
           => \A i \in Vertices :
                ~Longer(peachState'.softBodies[1].vertexVelocities[i], updateMaxVelocity)
        ]_vars

\* an update has cut a velocity to the integration cap and the constraint on
\* the displacement has not halved it afterwards
C26_Witness ==
    /\ lastEvent = "update"
    /\ peachState.softBodies[1].isActive
    /\ \E i \in Vertices :
          /\ Longer(peachState.softBodies[1].vertexVelocities[i], updateMaxVelocity - 2)
          /\ ~Longer(peachState.softBodies[1].vertexVelocities[i], updateMaxVelocity)

\* C27: a soft body that was made active by the last accepted hit is idle
\* once the frames that ran the normal physics since then have added up 2.5 s
\* of delta, and never before; and every such frame that finds it active
\* runs its update with the frame's delta.
C27_ActiveForDuration ==
    /\ [](\A k \in DOMAIN peachState.softBodies :
            log.hits > 0
            => (peachState.softBodies[k].isActive <=> log.jiggle < activityDuration))
    /\ [][ (FrameStep /\ Normal(World))
           => \A k \in DOMAIN peachState.softBodies :
                peachState.softBodies[k].isActive
                => \E clockDelta \in budget.deltas :
                     peachState'.softBodies[k]
                       = update(peachState.softBodies[k], Min(clockDelta, maxFrameDelta))
        ]_vars

\* the frame that brought the delta since the hit to 2.5 s has just made the
\* soft body idle: it is back at rest, and the peach is still wobbling
C27_Witness ==
    /\ lastEvent = "frame"
    /\ log.hits = 1 /\ log.jiggle = activityDuration
    /\ peachState.softBodies # << >>
    /\ ~peachState.softBodies[1].isActive
    /\ peachState.softBodies[1].activityTimer = 0
    /\ peachState.isWobbling

\* C28: a frame in the normal state with rageLevel > 0 lowers it by
\* min(rageLevel, 15 * delta), no frame raises it, and once the last hit has
\* been accepted the rage reaches 0 and, being 0, stays 0.
C28_RageDecays ==
    /\ [][ (FrameStep /\ Normal(World) /\ peachState.rageLevel > 0)
           => \E clockDelta \in budget.deltas :
                peachState'.rageLevel
                  = peachState.rageLevel
                      - Min(peachState.rageLevel,
                            rageDecayRate * Min(clockDelta, maxFrameDelta)) ]_vars
    /\ [][ FrameStep => peachState'.rageLevel <= peachState.rageLevel ]_vars
    /\ [][ (peachState.rageLevel = 0 /\ lastEvent' # "hit")
           => peachState'.rageLevel = 0 ]_vars
    /\ (log.hits = budget.hits ~> peachState.rageLevel = 0)

\* the rage the hit had raised has decayed to 0, the last step being smaller
\* than a full one or not, and a frame has found it at 0 and left it there
C28_Witness ==
    /\ lastEvent = "frame"
    /\ log.hits = budget.hits /\ log.hits > 0
    /\ peachState.rageLevel = 0
    /\ log.jiggle > rageDecayRate * maxFrameDelta

\* C29: an accepted hit raises the rage by 4 + 3 * min(v / 20, 3), v >= 2
\* being the smoothed pointer speed, before the result is cut to 100; the
\* increase is more than 4 and at most 13, so no explosion starts before the
\* eighth accepted hit since the rage was 0.
C29_RageIncrease ==
    /\ [][ (PointerStep /\ lastEvent' = "hit")
           => LET v == velocityMagnitude(mouseState'.velocityHistory)
                  increase == 4 * U + 3 * Min(v \div 20, 3 * U)
              IN  /\ v >= 2 * U
                  /\ increase > 4 * U /\ increase <= 13 * U
                  /\ log'.peak = Min(100 * U, peachState.rageLevel + increase) ]_vars
    /\ [](log.hits >= 8 * log.started)

\* the eighth hit has started the explosion: eight hits of the largest increase
C29_Witness ==
    /\ lastEvent = "hit" /\ log.hits = 8 /\ log.started = 1
    /\ isActive(particleExplosion)

\* where the peach is drawn: the group's position, rotation and scale, and
\* the position buffer of every soft body
Placement ==
    << peachGroup,
       [k \in 1 .. Len(peachState.softBodies) |-> peachState.softBodies[k].positions] >>

\* C30: a pointer event leaves the group's position, rotation and scale and
\* every vertex position as they were; it does not touch the respawn state or
\* the idle clock, and it changes the visibility and the explosion only by
\* starting the explosion at the threshold.  Once the model is loaded, a step
\* that changes the placement is a frame.
C30_PointerMovesNothing ==
    /\ [][ PointerStep
           => /\ Placement' = Placement
              /\ idleTime' = idleTime
              /\ peachState'.isRespawning = peachState.isRespawning
              /\ peachState'.respawnTimer = peachState.respawnTimer
              /\ (visible' # visible \/ particleExplosion' # particleExplosion)
                    => /\ log'.peak >= explosionThreshold
                       /\ ~isActive(particleExplosion)
                       /\ isActive(particleExplosion') ]_vars
    /\ [][ (peachMesh /\ Placement' # Placement) => lastEvent' = "frame" ]_vars

\* an accepted hit on a peach that earlier frames have moved and deformed: the
\* hit has set the velocities and left the peach in its displaced place
C30_Witness ==
    /\ lastEvent = "hit" /\ log.hits > 1 /\ log.frames > 0
    /\ peachGroup.position # defaultPosition
    /\ peachState.velocity # Zero3
    /\ \E k \in 1 .. Len(peachState.softBodies), i \in Vertices :
          /\ peachState.softBodies[k].positions[i] # originalPositions(i)
          /\ peachState.softBodies[k].activityTimer = activityDuration

\* the samples of a run: mesh m and index i for every i = 0, s, 2s, ... below
\* the mesh's vertex count n, s = max(1, floor(n / 300))
Samples ==
    UNION { LET n == budget.counts[m]
                s == Max(1, n \div 300)
            IN  { << m, k * s >> : k \in { j \in 0 .. n : j * s < n } } :
            m \in DOMAIN budget.counts }

\* the mesh and vertex index each particle was made from
ParticleSources ==
    { << particleExplosion.particles[k].mesh, particleExplosion.particles[k].vertex - 1 >> :
        k \in DOMAIN particleExplosion.particles }

\* C31: an explosion has exactly one particle for each sampled vertex: the
\* particles come from the samples 0, s, 2s, ... of every mesh, no two from the
\* same one, so their number is the number of samples
C31_OneParticlePerSample ==
    isActive(particleExplosion)
    => /\ ParticleSources = Samples
       /\ Len(particleExplosion.particles) = Cardinality(Samples)

\* an explosion of a mesh of 900 vertices, sampled at stride 3, and one of 599,
\* sampled at stride 1
C31_Witness ==
    /\ isActive(particleExplosion)
    /\ budget.counts = << 900, 599 >>
    /\ Len(particleExplosion.particles) = 300 + 599

\* C32: an explosion never has more than 300 particles
C32_AtMost300 == Len(particleExplosion.particles) <= 300

\* C33: while no explosion is active there are no particles: none before the
\* first explosion, none after an explosion has completed
C33_NoParticlesAtRest ==
    ~isActive(particleExplosion) => particleExplosion.particles = << >>

\* an explosion that had particles has completed and released them
C33_Witness ==
    /\ lastEvent = "frame" /\ log.started = 1 /\ log.completed = 1
    /\ ~isActive(particleExplosion)
    /\ particleExplosion.particles = << >>

\* C34: every frame advances the idle clock by the frame's delta (the clock
\* delta capped at 0.1 s), whatever state the peach is in, and no other step
\* changes the idle clock
C34_IdleClockAdvances ==
    /\ [][ lastEvent' = "frame"
           => \A clockDelta \in budget.deltas :
                Frame(clockDelta)
                => idleTime' = (idleTime + Min(clockDelta, maxFrameDelta)) % idlePeriod ]_vars
    /\ [][ idleTime' # idleTime => FrameStep ]_vars

\* a run without frames before the explosion: the idle clock has run through
\* the explosion and runs on through the respawn
C34_Witness ==
    /\ lastEvent = "frame" /\ log.frames = 0
    /\ peachState.isRespawning /\ peachState.respawnTimer > 0
    /\ idleTime = fallDuration + peachState.respawnTimer

\* C35: the rage is 0 throughout explosion and respawn, from the hit that
\* starts the explosion until the respawn animation has completed
C35_NoRageWhileAway ==
    (isActive(particleExplosion) \/ peachState.isRespawning)
    => peachState.rageLevel = 0

\* a pointer event during the respawn, after the cooldown has passed: it was
\* rejected, and the rage is still 0
C35_Witness ==
    /\ lastEvent = "rejected" /\ log.started = 1
    /\ peachState.isRespawning /\ peachState.respawnTimer > 0
    /\ mouseState.sinceSmack = smackCooldown
    /\ peachState.rageLevel = 0

\* C36: with the particle explosion system installed the rage is below the
\* threshold of 100 in every state: the hit that reaches 100 leaves it at 0
C36_RageBelowThreshold == peachState.rageLevel < explosionThreshold

\* the hit that brought the rage to 100 has left it at 0, and the frames of
\* the explosion have found it there
C36_Witness ==
    /\ lastEvent = "frame" /\ log.started = 1 /\ log.completed = 0
    /\ isActive(particleExplosion) /\ particleExplosion.explosionTimer > 0
    /\ log.hits = 10
    /\ peachState.rageLevel = 0

\* C37: two accepted hits are at least 200 ms of wall-clock time apart: a hit
\* is accepted only when the cooldown has passed since the last accepted one,
\* a pointer event inside the cooldown window is rejected, and the time since
\* the last accepted hit starts anew only when a hit is accepted
C37_CooldownBetweenHits ==
    /\ [][ log'.hits # log.hits
           => /\ mouseState.sinceSmack >= smackCooldown
              /\ mouseState'.sinceSmack = 0 ]_vars
    /\ [][ (PointerStep /\ mouseState.sinceSmack < smackCooldown)
           => /\ lastEvent' = "rejected"
              /\ mouseState'.sinceSmack = mouseState.sinceSmack ]_vars
    /\ [][ mouseState'.sinceSmack < mouseState.sinceSmack
           => log'.hits = log.hits + 1 ]_vars

\* two hits have been accepted, and a pointer event 199 ms after the second
\* one was rejected
C37_Witness ==
    /\ lastEvent = "rejected" /\ log.hits = 2
    /\ mouseState.sinceSmack = smackCooldown - 1

\* C38: a pointer event that is rejected leaves the time since the last
\* accepted hit, the rage and the rest of peachState (velocities, wobble flag,
\* soft bodies, respawn state), the group, the explosion and the visibility
\* unchanged: it only appends its displacement to the velocity history, which
\* keeps its last five entries
C38_RejectedChangesNothing ==
    /\ [][ (PointerStep /\ lastEvent' = "rejected")
           => /\ mouseState'.sinceSmack = mouseState.sinceSmack
              /\ peachState' = peachState
              /\ peachGroup' = peachGroup
              /\ particleExplosion' = particleExplosion
              /\ visible' = visible
              /\ idleTime' = idleTime
              /\ log'.hits = log.hits
              /\ \E move \in budget.moves :
                    LET pushed == Append(mouseState.velocityHistory, move)
                        n == Len(pushed)
                    IN  mouseState'.velocityHistory =
                            IF n > 5 THEN SubSeq(pushed, n - 4, n) ELSE pushed ]_vars
    /\ [](Len(mouseState.velocityHistory) <= 5)

\* a slow pointer event over the loaded peach, after a hit and with the
\* cooldown behind it: rejected for its speed, with a full history
C38_Witness ==
    /\ lastEvent = "rejected" /\ log.hits = 1
    /\ peachMesh /\ Normal(World)
    /\ mouseState.sinceSmack = smackCooldown
    /\ Len(mouseState.velocityHistory) = 5
    /\ velocityMagnitude(mouseState.velocityHistory) < minVelocity
    /\ peachState.rageLevel > 0

\* C39: a frame that finds the peach idle (neither exploding nor respawning
\* nor wobbling) sets position.y and rotation.y from the idle clock and leaves
\* position.x and z, rotation.x and z, the scale and both velocities as they
\* were, so what offset and tilt the wobble has left stays
C39_IdleWritesYOnly ==
    [][ (FrameStep /\ Normal(World) /\ ~peachState.isWobbling)
        => /\ peachGroup'.position[1] = peachGroup.position[1]
           /\ peachGroup'.position[3] = peachGroup.position[3]
           /\ peachGroup'.rotation[1] = peachGroup.rotation[1]
           /\ peachGroup'.rotation[3] = peachGroup.rotation[3]
           /\ peachGroup'.scale = peachGroup.scale
           /\ peachState'.velocity = peachState.velocity
           /\ peachState'.angularVelocity = peachState.angularVelocity
           /\ ~peachState'.isWobbling
           /\ peachGroup'.position[2] = SinCenti(MulDiv(idleTime', 15, 10)) * 20
           /\ peachGroup'.rotation[2] = SinCenti(MulDiv(idleTime', 5, 10)) * 30 ]_vars

\* an idle frame after the wobble of a hit has settled: the peach floats with
\* the offset and the tilt the wobble has left
C39_Witness ==
    /\ lastEvent = "frame" /\ log.hits = 1
    /\ Normal(World) /\ ~peachState.isWobbling /\ ~log.calm
    /\ peachGroup.position[1] # defaultPosition[1]
    /\ peachGroup.rotation[3] # defaultRotation[3]
    /\ peachGroup.position[2] = SinCenti(MulDiv(idleTime, 15, 10)) * 20

=============================================================================
